---- MODULE Spec2Model ----
(***************************************************************************)
(* State-machine model of the NPC policy-gated execution system:           *)
(*   - BehaviorController.sol : policy store, call ledger, gas accounting  *)
(*   - Arena.sol / Quest.sol  : guarded entities with an embedded guard    *)
(*   - NPCRegistry.sol        : the registry of NPC records                *)
(*   - Action (agent-runtime) : validate -> submit -> confirm -> record    *)
(* Every contract call is one atomic step (an EVM transaction); a call     *)
(* that reverts leaves the chain state unchanged and is visible only in    *)
(* lastTx.  Every await of Action.execute is a separate step.              *)
(***************************************************************************)
EXTENDS Integers, Sequences, FiniteSets, TLC

\* ------------------------------------------------------------- bounds
MaxDuels == 2
AuthDuels == 1
PipeDuels == 2
MaxQuests == 1
MaxPipes == 2
MaxElapsed == 7
AuthElapsed == 3
LedgerElapsed == 7
RateStep == 3
MaxDailyCount == 3
MaxGasUsed == 3
StartTime == 100000
GasUnit == 1
MaxTasks == 2
MaxRpcs == 4
TaskElapsed == 2000
LimiterElapsed == 60001

\* ------------------------------------------------- program constants
DAY == 86400
MINUTE == 60

\* ------------------------------------------------------------ universe
Owner == "owner"
Signer == "signer"
Player1 == "player1"
Player2 == "player2"
ZeroAddress == "0x0"
Arena == "Arena"
Quest == "Quest"

Accounts == {Owner, Signer, Player1, Player2}
Players == {Player1, Player2}
Targets == {Arena, Quest}
DuelIds == 0 .. (MaxDuels - 1)
QuestIds == 0 .. (MaxQuests - 1)
Pipes == 1 .. MaxPipes

\* A 4-byte selector is the hash of a signature string; hashing is injective
\* on the strings used here, so a selector is modelled by the string hashed.
ConcludeDuelSelector == "concludeDuel(uint256,address)"
CompleteQuestSelector == "completeQuest(uint256)"

VARIABLES
    now,             \* block.timestamp
    policies,        \* BehaviorController._policies
    callRecords,     \* BehaviorController._callRecords
    totalGasUsed,    \* BehaviorController._totalGasUsed
    trustedCallers,  \* holders of TRUSTED_CALLER_ROLE
    duels,           \* Arena._duels
    nextDuelId,      \* Arena._nextDuelId
    quests,          \* Quest._quests
    nextQuestId,     \* Quest._nextQuestId
    balances,        \* the ERC20 token's balanceOf
    npcs,            \* NPCRegistry._npcs
    nextTokenId,     \* NPCRegistry._nextTokenId
    registryOwner,   \* NPCRegistry.owner()
    actionMappings,  \* GameActionAdapter.actionMappings
    authorizedCallers, \* GameActionAdapter.authorizedCallers
    lastTx,          \* outcome of the transaction mined in the latest step
    pc,              \* Action.execute: position of each invocation
    plan,            \* Action.execute: the plan of each invocation
    result,          \* Action.execute: the value returned by each invocation
    clock,           \* gateway: Date.now(), in ms since the process started
    rateLimits,      \* gateway: the rateLimits map
    tasks,           \* gateway: the tasks map
    processing,      \* gateway: position of each task's processTask run
    lastReq          \* gateway: the response to the latest /rpc request

ledgerVars == <<policies, callRecords, totalGasUsed, trustedCallers>>
registryVars == <<npcs, nextTokenId, registryOwner>>
adapterVars == <<actionMappings, authorizedCallers>>
entityVars == <<duels, nextDuelId, quests, nextQuestId, balances,
                npcs, nextTokenId, registryOwner,
                actionMappings, authorizedCallers>>
chainVars == <<policies, callRecords, totalGasUsed, trustedCallers,
               duels, nextDuelId, quests, nextQuestId, balances,
               npcs, nextTokenId, registryOwner,
               actionMappings, authorizedCallers>>
pipeVars == <<pc, plan, result>>
gatewayVars == <<clock, rateLimits, tasks, processing, lastReq>>
vars == <<now, policies, callRecords, totalGasUsed, trustedCallers,
          duels, nextDuelId, quests, nextQuestId, balances,
          npcs, nextTokenId, registryOwner, actionMappings,
          authorizedCallers, lastTx, pc, plan, result,
          clock, rateLimits, tasks, processing, lastReq>>

\* ------------------------------------------------- BehaviorController
\* Action.parseActionName: ethers.id(`${methodName}(...)`).slice(0, 10)
MethodSelector(methodName) == methodName \o "(...)"

Selectors == {ConcludeDuelSelector, CompleteQuestSelector,
              MethodSelector("concludeDuel"), MethodSelector("completeQuest")}
Keys == Targets \X Selectors

NoPolicy == [methodAllowlist |-> {}, gasBudget |-> 0, callRateLimit |-> 0,
             dailyCallLimit |-> 0, isActive |-> FALSE]
NoRecord == [lastCalled |-> 0, dailyCount |-> 0, lastDayReset |-> 0]

\* AccessControl: the constructor grants POLICY_MANAGER_ROLE and
\* DEFAULT_ADMIN_ROLE to defaultAdmin only.
hasTrustedCallerRole_Anyone(account) == TRUE
hasPolicyManagerRole_Anyone(account) == TRUE

hasPolicyManagerRole(account) == account = Owner
hasDefaultAdminRole(account) == account = Owner
hasTrustedCallerRole(account) == account \in trustedCallers

isAllowed_NoActiveCheck(contractAddress, methodSignature) ==
    methodSignature \in policies[contractAddress].methodAllowlist

isAllowed_ActiveOnly(contractAddress, methodSignature) ==
    policies[contractAddress].isActive

isAllowed(contractAddress, methodSignature) ==
    /\ policies[contractAddress].isActive
    /\ methodSignature \in policies[contractAddress].methodAllowlist

getRemainingGasBudget_Unclamped(contractAddress) ==
    policies[contractAddress].gasBudget - totalGasUsed[contractAddress]

getRemainingGasBudget(contractAddress) ==
    LET policy == policies[contractAddress]
        used == totalGasUsed[contractAddress]
    IN  IF policy.gasBudget > used THEN policy.gasBudget - used ELSE 0

minuteRateOk_NonStrict(policy, record) ==
    (now - record.lastCalled) >= (MINUTE \div policy.callRateLimit)

minuteRateOk(policy, record) ==
    (now - record.lastCalled) > (MINUTE \div policy.callRateLimit)

dailyLimitOk(policy, record) ==
    IF policy.dailyCallLimit > 0
    THEN IF now >= record.lastDayReset + DAY
         THEN TRUE
         ELSE record.dailyCount < policy.dailyCallLimit
    ELSE TRUE

checkRateLimit(contractAddress, methodSignature) ==
    LET policy == policies[contractAddress]
        record == callRecords[<<contractAddress, methodSignature>>]
    IN  IF ~policy.isActive \/ policy.callRateLimit = 0
        THEN policy.isActive
        ELSE minuteRateOk(policy, record) /\ dailyLimitOk(policy, record)

\* The CallRecord written by recordCallWithGas at block.timestamp = now.
recordedCall_KeepWindow(record) ==
    [lastCalled |-> now,
     dailyCount |-> record.dailyCount + 1,
     lastDayReset |-> record.lastDayReset]

recordedCall_StepWindow(record) ==
    IF now >= record.lastDayReset + DAY
    THEN [lastCalled |-> now, dailyCount |-> 1,
          lastDayReset |-> record.lastDayReset + DAY]
    ELSE [lastCalled |-> now, dailyCount |-> record.dailyCount + 1,
          lastDayReset |-> record.lastDayReset]

recordedCall(record) ==
    IF now >= record.lastDayReset + DAY
    THEN [lastCalled |-> now, dailyCount |-> 1, lastDayReset |-> now]
    ELSE [lastCalled |-> now, dailyCount |-> record.dailyCount + 1,
          lastDayReset |-> record.lastDayReset]

\* State written by recordCallWithGas(contractAddress, methodSignature, gasUsed)
\* once the onlyRole(TRUSTED_CALLER_ROLE) modifier has passed.
recordCallWithGas(contractAddress, methodSignature, gasUsed) ==
    /\ callRecords' = [callRecords EXCEPT ![<<contractAddress, methodSignature>>] =
                           recordedCall(@)]
    /\ totalGasUsed' = [totalGasUsed EXCEPT ![contractAddress] = @ + gasUsed]

\* The outcome of a mined transaction; NoTx when the step mined none.
NoTx == [fn |-> "none", sender |-> ZeroAddress, ok |-> TRUE, err |-> ""]
Ok(fn, sender) == [fn |-> fn, sender |-> sender, ok |-> TRUE, err |-> ""]
Revert(fn, sender, err) == [fn |-> fn, sender |-> sender, ok |-> FALSE, err |-> err]

\* The plan and the result of an invocation of execute that has not started.
NoPlan == [action |-> <<>>, params |-> [id |-> 0, winner |-> ZeroAddress]]
NoResult == [success |-> FALSE, error |-> "", keys |-> {}]

ErrUnauthorized == "AccessControlUnauthorizedAccount"
ErrNotAllowed == "BehaviorController: Action not allowed"

\* An input in of setPolicy is <<contractAddress, allowedMethods, gasBudget,
\* callRateLimit, dailyCallLimit>>.
GasBudget == 2

\* A contract function below states the transaction's effect on the chain
\* state and its outcome; a reverted transaction changes no chain state.
Reverted(tx) == lastTx' = tx /\ UNCHANGED chainVars

\* A transaction sent from outside the agent runtime.
Tx(call) == call /\ UNCHANGED <<now, pipeVars, gatewayVars>>

SetPolicy_Replace(caller, in) ==
    /\ IF ~hasPolicyManagerRole(caller)
       THEN Reverted(Revert("setPolicy", caller, ErrUnauthorized))
       ELSE /\ policies' = [policies EXCEPT ![in[1]] =
                   [methodAllowlist |-> in[2],
                    gasBudget |-> in[3],
                    callRateLimit |-> in[4],
                    dailyCallLimit |-> in[5],
                    isActive |-> TRUE]]
            /\ lastTx' = Ok("setPolicy", caller)
            /\ UNCHANGED <<callRecords, totalGasUsed, trustedCallers, entityVars>>

SetPolicy(caller, in) ==
    /\ IF ~hasPolicyManagerRole(caller)
       THEN Reverted(Revert("setPolicy", caller, ErrUnauthorized))
       ELSE /\ policies' = [policies EXCEPT ![in[1]] =
                   [methodAllowlist |-> @.methodAllowlist \cup in[2],
                    gasBudget |-> in[3],
                    callRateLimit |-> in[4],
                    dailyCallLimit |-> in[5],
                    isActive |-> TRUE]]
            /\ lastTx' = Ok("setPolicy", caller)
            /\ UNCHANGED <<callRecords, totalGasUsed, trustedCallers, entityVars>>

ActivatePolicy(caller, contractAddress) ==
    /\ IF ~hasPolicyManagerRole(caller)
       THEN Reverted(Revert("activatePolicy", caller, ErrUnauthorized))
       ELSE /\ policies' = [policies EXCEPT ![contractAddress].isActive = TRUE]
            /\ lastTx' = Ok("activatePolicy", caller)
            /\ UNCHANGED <<callRecords, totalGasUsed, trustedCallers, entityVars>>

DeactivatePolicy_Delete(caller, contractAddress) ==
    /\ IF ~hasPolicyManagerRole(caller)
       THEN Reverted(Revert("deactivatePolicy", caller, ErrUnauthorized))
       ELSE /\ policies' = [policies EXCEPT ![contractAddress] = NoPolicy]
            /\ lastTx' = Ok("deactivatePolicy", caller)
            /\ UNCHANGED <<callRecords, totalGasUsed, trustedCallers, entityVars>>

DeactivatePolicy(caller, contractAddress) ==
    /\ IF ~hasPolicyManagerRole(caller)
       THEN Reverted(Revert("deactivatePolicy", caller, ErrUnauthorized))
       ELSE /\ policies' = [policies EXCEPT ![contractAddress].isActive = FALSE]
            /\ lastTx' = Ok("deactivatePolicy", caller)
            /\ UNCHANGED <<callRecords, totalGasUsed, trustedCallers, entityVars>>

GrantTrustedCallerRole(caller, account) ==
    /\ IF ~hasDefaultAdminRole(caller)
       THEN Reverted(Revert("grantTrustedCallerRole", caller, ErrUnauthorized))
       ELSE /\ trustedCallers' = trustedCallers \cup {account}
            /\ lastTx' = Ok("grantTrustedCallerRole", caller)
            /\ UNCHANGED <<policies, callRecords, totalGasUsed, entityVars>>

RevokeTrustedCallerRole(caller, account) ==
    /\ IF ~hasDefaultAdminRole(caller)
       THEN Reverted(Revert("revokeTrustedCallerRole", caller, ErrUnauthorized))
       ELSE /\ trustedCallers' = trustedCallers \ {account}
            /\ lastTx' = Ok("revokeTrustedCallerRole", caller)
            /\ UNCHANGED <<policies, callRecords, totalGasUsed, entityVars>>

\* recordCall(c, m) is recordCallWithGas(c, m, 0) with the same msg.sender.
RecordCallWithGas(caller, contractAddress, methodSignature, gasUsed) ==
    /\ callRecords[<<contractAddress, methodSignature>>].dailyCount < MaxDailyCount
    /\ totalGasUsed[contractAddress] + gasUsed <= MaxGasUsed
    /\ IF ~hasTrustedCallerRole(caller)
       THEN Reverted(Revert("recordCallWithGas", caller, ErrUnauthorized))
       ELSE /\ recordCallWithGas(contractAddress, methodSignature, gasUsed)
            /\ lastTx' = Ok("recordCallWithGas", caller)
            /\ UNCHANGED <<policies, trustedCallers, entityVars>>

\* ---------------------------------------------------------------- token
\* The ERC20 token of the test fixture (MockERC20): the supply is minted to
\* the deployer, who hands PlayerBalance to each of the other accounts.
InitialSupply == 1000000
PlayerBalance == 1000
Holders == Accounts \cup Targets

InitialBalances ==
    [h \in Holders |->
        IF h = Owner THEN InitialSupply - 3 * PlayerBalance
        ELSE IF h \in Accounts THEN PlayerBalance
        ELSE 0]

\* The balances after token.transfer / token.transferFrom moves amount.
transfer_Half(from, to, amount) ==
    [balances EXCEPT ![from] = @ - amount \div 2, ![to] = @ + amount \div 2]

transfer(from, to, amount) ==
    [balances EXCEPT ![from] = @ - amount, ![to] = @ + amount]

\* ---------------------------------------------------------------- Arena
Wager == 10
NoDuel == [players |-> <<ZeroAddress, ZeroAddress>>, wager |-> 0,
           winner |-> ZeroAddress, state |-> "PENDING", concludedAt |-> 0]

\* funded: the caller has approved the amount to the contract
\* (token.allowance).
CreateDuel(caller, player2, funded) ==
    /\ nextDuelId < MaxDuels
    /\ IF player2 = caller
       THEN Reverted(Revert("createDuel", caller, "Cannot duel yourself"))
       ELSE IF balances[caller] < Wager
       THEN Reverted(Revert("createDuel", caller, "Insufficient balance"))
       ELSE IF ~funded
       THEN Reverted(Revert("createDuel", caller, "Insufficient allowance"))
       ELSE /\ balances' = transfer(caller, Arena, Wager)
            /\ duels' = [duels EXCEPT ![nextDuelId] =
                   [players |-> <<caller, player2>>, wager |-> Wager,
                    winner |-> ZeroAddress, state |-> "PENDING",
                    concludedAt |-> 0]]
            /\ nextDuelId' = nextDuelId + 1
            /\ lastTx' = Ok("createDuel", caller)
            /\ UNCHANGED <<ledgerVars, quests, nextQuestId, registryVars, adapterVars>>

\* An acceptDuel that activates the duel without taking the second stake.
AcceptDuel_NoStake(caller, duelId, funded) ==
    /\ LET duel == duels[duelId] IN
       IF duel.state # "PENDING"
       THEN Reverted(Revert("acceptDuel", caller, "Duel not pending"))
       ELSE IF caller # duel.players[2]
       THEN Reverted(Revert("acceptDuel", caller, "Not your duel"))
       ELSE /\ duels' = [duels EXCEPT ![duelId].state = "ACTIVE"]
            /\ lastTx' = Ok("acceptDuel", caller)
            /\ UNCHANGED <<ledgerVars, nextDuelId, quests, nextQuestId,
                           balances, registryVars, adapterVars>>

AcceptDuel_Guarded(caller, duelId, funded) ==
    /\ LET duel == duels[duelId] IN
       IF ~isAllowed(Arena, ConcludeDuelSelector)
       THEN Reverted(Revert("acceptDuel", caller, ErrNotAllowed))
       ELSE IF duel.state # "PENDING"
       THEN Reverted(Revert("acceptDuel", caller, "Duel not pending"))
       ELSE IF caller # duel.players[2]
       THEN Reverted(Revert("acceptDuel", caller, "Not your duel"))
       ELSE IF balances[caller] < duel.wager
       THEN Reverted(Revert("acceptDuel", caller, "Insufficient balance"))
       ELSE IF ~funded
       THEN Reverted(Revert("acceptDuel", caller, "Insufficient allowance"))
       ELSE /\ balances' = transfer(caller, Arena, duel.wager)
            /\ duels' = [duels EXCEPT ![duelId].state = "ACTIVE"]
            /\ lastTx' = Ok("acceptDuel", caller)
            /\ UNCHANGED <<ledgerVars, nextDuelId, quests, nextQuestId,
                           registryVars, adapterVars>>

AcceptDuel(caller, duelId, funded) ==
    /\ LET duel == duels[duelId] IN
       IF duel.state # "PENDING"
       THEN Reverted(Revert("acceptDuel", caller, "Duel not pending"))
       ELSE IF caller # duel.players[2]
       THEN Reverted(Revert("acceptDuel", caller, "Not your duel"))
       ELSE IF balances[caller] < duel.wager
       THEN Reverted(Revert("acceptDuel", caller, "Insufficient balance"))
       ELSE IF ~funded
       THEN Reverted(Revert("acceptDuel", caller, "Insufficient allowance"))
       ELSE /\ balances' = transfer(caller, Arena, duel.wager)
            /\ duels' = [duels EXCEPT ![duelId].state = "ACTIVE"]
            /\ lastTx' = Ok("acceptDuel", caller)
            /\ UNCHANGED <<ledgerVars, nextDuelId, quests, nextQuestId,
                           registryVars, adapterVars>>

concludeDuelError_NoStateCheck(duelId, winner) ==
    LET duel == duels[duelId] IN
    IF ~isAllowed(Arena, ConcludeDuelSelector) THEN ErrNotAllowed
    ELSE IF ~hasTrustedCallerRole(Arena) THEN ErrUnauthorized
    ELSE IF winner # duel.players[1] /\ winner # duel.players[2]
         THEN "Invalid winner"
    ELSE ""

concludeDuelError_NoGuard(duelId, winner) ==
    LET duel == duels[duelId] IN
    IF ~hasTrustedCallerRole(Arena) THEN ErrUnauthorized
    ELSE IF duel.state # "ACTIVE" THEN "Duel not active"
    ELSE IF winner # duel.players[1] /\ winner # duel.players[2]
         THEN "Invalid winner"
    ELSE ""

\* The revert reason of concludeDuel(duelId, winner), "" when it succeeds.
\* behaviorController.recordCall runs with msg.sender = the Arena.
concludeDuelError(duelId, winner) ==
    LET duel == duels[duelId] IN
    IF ~isAllowed(Arena, ConcludeDuelSelector) THEN ErrNotAllowed
    ELSE IF ~hasTrustedCallerRole(Arena) THEN ErrUnauthorized
    ELSE IF duel.state # "ACTIVE" THEN "Duel not active"
    ELSE IF winner # duel.players[1] /\ winner # duel.players[2]
         THEN "Invalid winner"
    ELSE ""

\* A concludeDuel whose record of the call survives a revert of the
\* require()s that follow it.
ConcludeDuel_RecordKept(caller, duelId, winner) ==
    /\ callRecords[<<Arena, ConcludeDuelSelector>>].dailyCount < MaxDailyCount
    /\ IF concludeDuelError(duelId, winner) \in {ErrNotAllowed, ErrUnauthorized}
       THEN Reverted(Revert("concludeDuel", caller, concludeDuelError(duelId, winner)))
       ELSE IF concludeDuelError(duelId, winner) # ""
       THEN /\ recordCallWithGas(Arena, ConcludeDuelSelector, 0)
            /\ lastTx' = Revert("concludeDuel", caller,
                                concludeDuelError(duelId, winner))
            /\ UNCHANGED <<policies, trustedCallers, entityVars>>
       ELSE /\ recordCallWithGas(Arena, ConcludeDuelSelector, 0)
            /\ duels' = [duels EXCEPT ![duelId].winner = winner,
                                      ![duelId].state = "CONCLUDED",
                                      ![duelId].concludedAt = now]
            /\ balances' = transfer(Arena, winner, duels[duelId].wager * 2)
            /\ lastTx' = Ok("concludeDuel", caller)
            /\ UNCHANGED <<policies, trustedCallers, nextDuelId, quests,
                           nextQuestId, registryVars, adapterVars>>

ConcludeDuel_NoRecord(caller, duelId, winner) ==
    /\ callRecords[<<Arena, ConcludeDuelSelector>>].dailyCount < MaxDailyCount
    /\ IF concludeDuelError(duelId, winner) # ""
       THEN Reverted(Revert("concludeDuel", caller, concludeDuelError(duelId, winner)))
       ELSE /\ duels' = [duels EXCEPT ![duelId].winner = winner,
                                      ![duelId].state = "CONCLUDED",
                                      ![duelId].concludedAt = now]
            /\ balances' = transfer(Arena, winner, duels[duelId].wager * 2)
            /\ lastTx' = Ok("concludeDuel", caller)
            /\ UNCHANGED <<ledgerVars, nextDuelId, quests, nextQuestId,
                           registryVars, adapterVars>>

ConcludeDuel(caller, duelId, winner) ==
    /\ callRecords[<<Arena, ConcludeDuelSelector>>].dailyCount < MaxDailyCount
    /\ IF concludeDuelError(duelId, winner) # ""
       THEN Reverted(Revert("concludeDuel", caller, concludeDuelError(duelId, winner)))
       ELSE /\ recordCallWithGas(Arena, ConcludeDuelSelector, 0)
            /\ duels' = [duels EXCEPT ![duelId].winner = winner,
                                      ![duelId].state = "CONCLUDED",
                                      ![duelId].concludedAt = now]
            /\ balances' = transfer(Arena, winner, duels[duelId].wager * 2)
            /\ lastTx' = Ok("concludeDuel", caller)
            /\ UNCHANGED <<policies, trustedCallers, nextDuelId, quests,
                           nextQuestId, registryVars, adapterVars>>

\* The events the Arena emits in a successful call of fn; a reverted call
\* leaves none.
ArenaEvents(fn) ==
    CASE fn = "createDuel" -> {"DuelCreated"}
      [] fn = "acceptDuel" -> {}
      [] fn = "concludeDuel" -> {"DuelConcluded"}
      [] OTHER -> {}

\* The Arena's part of the event log of the transaction in lastTx.
ArenaLog == IF lastTx.ok THEN ArenaEvents(lastTx.fn) ELSE {}

\* ---------------------------------------------------------------- Quest
Reward == 5
Token == "Token"
NoQuest == [creator |-> ZeroAddress, participant |-> ZeroAddress,
            token |-> ZeroAddress, reward |-> 0, state |-> "OPEN",
            completedAt |-> 0]

CreateQuest(caller, funded) ==
    /\ nextQuestId < MaxQuests
    /\ IF balances[caller] < Reward
       THEN Reverted(Revert("createQuest", caller, "Insufficient balance"))
       ELSE IF ~funded
       THEN Reverted(Revert("createQuest", caller, "Insufficient allowance"))
       ELSE /\ balances' = transfer(caller, Quest, Reward)
            /\ quests' = [quests EXCEPT ![nextQuestId] =
                   [creator |-> caller, participant |-> ZeroAddress,
                    token |-> Token, reward |-> Reward, state |-> "OPEN",
                    completedAt |-> 0]]
            /\ nextQuestId' = nextQuestId + 1
            /\ lastTx' = Ok("createQuest", caller)
            /\ UNCHANGED <<ledgerVars, duels, nextDuelId, registryVars, adapterVars>>

AcceptQuest(caller, questId) ==
    /\ IF quests[questId].state # "OPEN"
       THEN Reverted(Revert("acceptQuest", caller, "Quest not open"))
       ELSE /\ quests' = [quests EXCEPT ![questId].participant = caller,
                                        ![questId].state = "IN_PROGRESS"]
            /\ lastTx' = Ok("acceptQuest", caller)
            /\ UNCHANGED <<ledgerVars, duels, nextDuelId, nextQuestId,
                           balances, registryVars, adapterVars>>

completeQuestError_AnyCaller(caller, questId) ==
    LET quest == quests[questId] IN
    IF ~isAllowed(Quest, CompleteQuestSelector) THEN ErrNotAllowed
    ELSE IF ~hasTrustedCallerRole(Quest) THEN ErrUnauthorized
    ELSE IF quest.state # "IN_PROGRESS" THEN "Quest not in progress"
    ELSE IF quest.token = ZeroAddress THEN "call to non-contract"
    ELSE ""

\* The revert reason of completeQuest(questId) sent by caller, "" when it
\* succeeds.  quest.token.transfer reverts when token is the zero address
\* (a high-level call to an address without code).
completeQuestError(caller, questId) ==
    LET quest == quests[questId] IN
    IF ~isAllowed(Quest, CompleteQuestSelector) THEN ErrNotAllowed
    ELSE IF ~hasTrustedCallerRole(Quest) THEN ErrUnauthorized
    ELSE IF quest.state # "IN_PROGRESS" THEN "Quest not in progress"
    ELSE IF caller # quest.participant THEN "Not your quest"
    ELSE IF quest.token = ZeroAddress THEN "call to non-contract"
    ELSE ""

CompleteQuest(caller, questId) ==
    /\ callRecords[<<Quest, CompleteQuestSelector>>].dailyCount < MaxDailyCount
    /\ IF completeQuestError(caller, questId) # ""
       THEN Reverted(Revert("completeQuest", caller, completeQuestError(caller, questId)))
       ELSE /\ recordCallWithGas(Quest, CompleteQuestSelector, 0)
            /\ quests' = [quests EXCEPT ![questId].state = "COMPLETED",
                                        ![questId].completedAt = now]
            /\ balances' = transfer(Quest, quests[questId].participant,
                                    quests[questId].reward)
            /\ lastTx' = Ok("completeQuest", caller)
            /\ UNCHANGED <<policies, trustedCallers, duels, nextDuelId,
                           nextQuestId, registryVars, adapterVars>>

\* ---------------------------------------------------------- NPCRegistry
MaxNPCs == 2
NpcIds == 0 .. (MaxNPCs - 1)
NoNPC == [id |-> 0, owner |-> ZeroAddress, controller |-> ZeroAddress,
          metadataUri |-> ""]
ErrNotOwner == "Not owner"

RegisterNPC_SameId(caller, owner, controller, metadataUri) ==
    /\ nextTokenId < MaxNPCs
    /\ npcs' = [npcs EXCEPT ![0] =
            [id |-> 0, owner |-> owner, controller |-> controller,
             metadataUri |-> metadataUri]]
    /\ nextTokenId' = nextTokenId + 1
    /\ lastTx' = Ok("registerNPC", caller)
    /\ UNCHANGED <<ledgerVars, duels, nextDuelId, quests, nextQuestId,
                   balances, registryOwner, adapterVars>>

RegisterNPC(caller, owner, controller, metadataUri) ==
    /\ nextTokenId < MaxNPCs
    /\ npcs' = [npcs EXCEPT ![nextTokenId] =
            [id |-> nextTokenId, owner |-> owner, controller |-> controller,
             metadataUri |-> metadataUri]]
    /\ nextTokenId' = nextTokenId + 1
    /\ lastTx' = Ok("registerNPC", caller)
    /\ UNCHANGED <<ledgerVars, duels, nextDuelId, quests, nextQuestId,
                   balances, registryOwner, adapterVars>>

\* require(_npcs[npcId].owner == msg.sender || owner() == msg.sender)
isNPCOwner_Anyone(caller, npcId) == TRUE

isNPCOwner(caller, npcId) ==
    npcs[npcId].owner = caller \/ registryOwner = caller

UpdateNPCController(caller, npcId, newController) ==
    /\ IF ~isNPCOwner(caller, npcId)
       THEN Reverted(Revert("updateNPCController", caller, ErrNotOwner))
       ELSE /\ npcs' = [npcs EXCEPT ![npcId].controller = newController]
            /\ lastTx' = Ok("updateNPCController", caller)
            /\ UNCHANGED <<ledgerVars, duels, nextDuelId, quests, nextQuestId,
                           balances, nextTokenId, registryOwner,
                           adapterVars>>

UpdateNPCMetadata(caller, npcId, newMetadataUri) ==
    /\ IF ~isNPCOwner(caller, npcId)
       THEN Reverted(Revert("updateNPCMetadata", caller, ErrNotOwner))
       ELSE /\ npcs' = [npcs EXCEPT ![npcId].metadataUri = newMetadataUri]
            /\ lastTx' = Ok("updateNPCMetadata", caller)
            /\ UNCHANGED <<ledgerVars, duels, nextDuelId, quests, nextQuestId,
                           balances, nextTokenId, registryOwner,
                           adapterVars>>

\* Ownable.transferOwnership, which NPCRegistry inherits.
TransferOwnership(caller, newOwner) ==
    /\ IF registryOwner # caller
       THEN Reverted(Revert("transferOwnership", caller,
                            "OwnableUnauthorizedAccount"))
       ELSE IF newOwner = ZeroAddress
       THEN Reverted(Revert("transferOwnership", caller, "OwnableInvalidOwner"))
       ELSE /\ registryOwner' = newOwner
            /\ lastTx' = Ok("transferOwnership", caller)
            /\ UNCHANGED <<ledgerVars, duels, nextDuelId, quests, nextQuestId,
                           balances, npcs, nextTokenId, adapterVars>>

\* ---------------------------------------------------- GameActionAdapter
Adapter == "GameActionAdapter"
ActionTypes == {"concludeDuel", "attack"}
NoMapping == [targetContract |-> ZeroAddress, functionSelector |-> "",
              requiresApproval |-> FALSE, gasCost |-> 0]
\* Ownable(initialOwner): the deployer; the adapter's ownership is not
\* transferred in the steps below.
adapterOwner == Owner

ErrNotAuthorized == "Not authorized"
ErrNotMapped == "Action type not mapped"
ErrAdapterNotAllowed == "Action not allowed by BehaviorController"
ErrRateLimit == "Rate limit exceeded"

\* in = <<targetContract, functionSelector, requiresApproval, gasCost>>
SetActionMapping(caller, actionType, in) ==
    /\ IF caller # adapterOwner
       THEN Reverted(Revert("setActionMapping", caller,
                            "OwnableUnauthorizedAccount"))
       ELSE /\ actionMappings' = [actionMappings EXCEPT ![actionType] =
                   [targetContract |-> in[1], functionSelector |-> in[2],
                    requiresApproval |-> in[3], gasCost |-> in[4]]]
            /\ lastTx' = Ok("setActionMapping", caller)
            /\ UNCHANGED <<ledgerVars, duels, nextDuelId, quests, nextQuestId,
                           balances, registryVars, authorizedCallers>>

AuthorizeAddress(caller, account) ==
    /\ IF caller # adapterOwner
       THEN Reverted(Revert("authorizeAddress", caller,
                            "OwnableUnauthorizedAccount"))
       ELSE /\ authorizedCallers' = authorizedCallers \cup {account}
            /\ lastTx' = Ok("authorizeAddress", caller)
            /\ UNCHANGED <<ledgerVars, duels, nextDuelId, quests, nextQuestId,
                           balances, registryVars, actionMappings>>

RevokeAuthorization(caller, account) ==
    /\ IF caller # adapterOwner
       THEN Reverted(Revert("revokeAuthorization", caller,
                            "OwnableUnauthorizedAccount"))
       ELSE /\ authorizedCallers' = authorizedCallers \ {account}
            /\ lastTx' = Ok("revokeAuthorization", caller)
            /\ UNCHANGED <<ledgerVars, duels, nextDuelId, quests, nextQuestId,
                           balances, registryVars, actionMappings>>

executeActionError_NoRateCheck(caller, actionType) ==
    LET actionMapping == actionMappings[actionType] IN
    IF ~(caller \in authorizedCallers \/ caller = adapterOwner)
    THEN ErrNotAuthorized
    ELSE IF actionMapping.targetContract = ZeroAddress THEN ErrNotMapped
    ELSE IF /\ actionMapping.requiresApproval
            /\ ~isAllowed(actionMapping.targetContract,
                          actionMapping.functionSelector)
         THEN ErrAdapterNotAllowed
    ELSE ""

\* The revert reason of executeAction before it calls the target, "" when
\* the target is called.
executeActionError(caller, actionType) ==
    LET actionMapping == actionMappings[actionType] IN
    IF ~(caller \in authorizedCallers \/ caller = adapterOwner)
    THEN ErrNotAuthorized
    ELSE IF actionMapping.targetContract = ZeroAddress THEN ErrNotMapped
    ELSE IF /\ actionMapping.requiresApproval
            /\ ~isAllowed(actionMapping.targetContract,
                          actionMapping.functionSelector)
         THEN ErrAdapterNotAllowed
    ELSE IF /\ actionMapping.requiresApproval
            /\ ~checkRateLimit(actionMapping.targetContract,
                               actionMapping.functionSelector)
         THEN ErrRateLimit
    ELSE ""

\* The revert reason of targetContract.call(functionSelector ++ params), ""
\* when the call succeeds.  params encode (duelId, winner); the one function
\* dispatched is the Arena's concludeDuel, any other selector or target has
\* no such function.
targetCallError(actionMapping, duelId, winner) ==
    IF /\ actionMapping.targetContract = Arena
       /\ actionMapping.functionSelector = ConcludeDuelSelector
    THEN concludeDuelError(duelId, winner)
    ELSE "function selector was not recognized"

\* executeAction(actionType, abi.encode(duelId, winner)).  A failed target
\* call does not revert the transaction: its reason is the returned result,
\* kept in lastTx.err of the mined transaction.  recordCall is sent by the
\* adapter and reverts the whole transaction when the adapter lacks the
\* trusted-caller role.
ExecuteAction(caller, actionType, duelId, winner) ==
    LET actionMapping == actionMappings[actionType]
        key == <<actionMapping.targetContract, actionMapping.functionSelector>>
        callError == targetCallError(actionMapping, duelId, winner)
        recordedByTarget ==
            [callRecords EXCEPT ![<<Arena, ConcludeDuelSelector>>] =
                 recordedCall(@)]
    IN
    /\ callRecords[<<Arena, ConcludeDuelSelector>>].dailyCount + 2 <= MaxDailyCount
    /\ IF executeActionError(caller, actionType) # ""
       THEN Reverted(Revert("executeAction", caller,
                            executeActionError(caller, actionType)))
       ELSE IF callError # ""
       THEN /\ lastTx' = [fn |-> "executeAction", sender |-> caller,
                          ok |-> TRUE, err |-> callError]
            /\ UNCHANGED chainVars
       ELSE IF actionMapping.requiresApproval /\ ~hasTrustedCallerRole(Adapter)
       THEN Reverted(Revert("executeAction", caller, ErrUnauthorized))
       ELSE /\ callRecords' =
                   IF actionMapping.requiresApproval
                   THEN [recordedByTarget EXCEPT ![key] = recordedCall(@)]
                   ELSE recordedByTarget
            /\ duels' = [duels EXCEPT ![duelId].winner = winner,
                                      ![duelId].state = "CONCLUDED",
                                      ![duelId].concludedAt = now]
            /\ balances' = transfer(Arena, winner, duels[duelId].wager * 2)
            /\ lastTx' = Ok("executeAction", caller)
            /\ UNCHANGED <<policies, totalGasUsed, trustedCallers, nextDuelId,
                           quests, nextQuestId, registryVars, adapterVars>>

\* -------------------------------------------------------------- gateway
\* The A2A gateway: an express server with an in-memory rate limiter and
\* task table.  A /rpc request runs without yielding to another request or
\* timer (its awaits resolve in microtasks), so it is one step; the run of
\* processTask that task.open starts is suspended in agentRuntime.handleTask
\* and resumes in a later step.  Stream clients and logging are left out.
WindowMs == 60000
MaxRequests == 100
HandleTaskDelay == 1000

DefaultApiKey == "test-api-key-123"
Ips == {"ip1"}
\* The API keys requests carry: the configured one and one not configured.
ApiKeys == {DefaultApiKey, "bad-key"}
apiKeys == {DefaultApiKey}
\* clientId is req.ip + req.headers['x-api-key'], modelled by the pair.
ClientIds == Ips \X ApiKeys
TaskIds == 1 .. MaxTasks
Methods == {"task.open", "task.status", "task.update", "task.finalize"}

NoLimit == [count |-> 0, resetTime |-> 0]
Undefined == [undefined |-> TRUE]
NoTask ==
    [status |-> "none", type |-> "", params |-> {}, result |-> Undefined,
     error |-> "", createdAt |-> 0, updatedAt |-> 0]
NoRun == [pc |-> "none", type |-> "", params |-> {}]
NoReq == [client |-> <<"", "">>, method |-> "", code |-> 0, reached |-> {}]
ForcedResult == [forcedFinalization |-> TRUE]

\* rateLimit with the window test mistaken by one request.
rateLimit_OneMore(current, t) ==
    IF current = NoLimit \/ t > current.resetTime
    THEN [next |-> TRUE, entry |-> [count |-> 1, resetTime |-> t + WindowMs]]
    ELSE IF current.count <= MaxRequests
         THEN [next |-> TRUE, entry |-> [current EXCEPT !.count = @ + 1]]
         ELSE [next |-> FALSE, entry |-> current]

\* rateLimit on the entry current of a client at time t: whether next() is
\* called, and the client's entry afterwards.
rateLimit(current, t) ==
    IF current = NoLimit \/ t > current.resetTime
    THEN [next |-> TRUE, entry |-> [count |-> 1, resetTime |-> t + WindowMs]]
    ELSE IF current.count < MaxRequests
         THEN [next |-> TRUE, entry |-> [current EXCEPT !.count = @ + 1]]
         ELSE [next |-> FALSE, entry |-> current]

\* authenticateApiKey calls next() for:
authenticateApiKey(apiKey) == apiKey \in apiKeys

\* MockAgentRuntime.handleTask resolves to this value; task.params is the
\* object captured when processTask called it.
handleTask(task) ==
    [success |-> TRUE, action |-> IF task.type # "" THEN task.type ELSE "unknown",
     result |-> <<"Processed", task.type, task.params>>]

\* updateTaskStatus on the task table ts at time t; res = Undefined and
\* err = "" stand for the omitted arguments.
updateTaskStatus(ts, taskId, status, res, err, t) ==
    IF ts[taskId] = NoTask
    THEN ts
    ELSE [ts EXCEPT ![taskId] =
             [@ EXCEPT !.status = status,
                       !.updatedAt = t,
                       !.result = IF res # Undefined THEN res ELSE @,
                       !.error = IF err # "" THEN err ELSE @]]

Respond(client, method, code, reached) ==
    lastReq' = [client |-> client, method |-> method, code |-> code,
                reached |-> reached]

\* handleTaskOpen: the task is stored as 'submitted', and processTask runs up
\* to its await: the status is 'working' when the handler returns.  The id is
\* crypto.randomUUID(), any id not in use.
handleTaskOpen(type) ==
    \E taskId \in TaskIds :
        /\ tasks[taskId] = NoTask
        /\ LET task == [status |-> "submitted",
                        type |-> IF type # "" THEN type ELSE "general",
                        params |-> {}, result |-> Undefined, error |-> "",
                        createdAt |-> clock, updatedAt |-> clock]
           IN  /\ tasks' = updateTaskStatus([tasks EXCEPT ![taskId] = task],
                                            taskId, "working", Undefined, "",
                                            clock)
               /\ processing' = [processing EXCEPT ![taskId] =
                      [pc |-> "handleTask", type |-> task.type,
                       params |-> task.params]]

\* handleTaskUpdate; it throws for a missing or a finished task.
handleTaskUpdateError(taskId) ==
    IF tasks[taskId] = NoTask THEN "Task not found"
    ELSE IF tasks[taskId].status \in {"completed", "failed"}
         THEN "Cannot update completed or failed task"
         ELSE ""

handleTaskUpdate(taskId, update) ==
    /\ tasks' = [tasks EXCEPT ![taskId] =
                    [@ EXCEPT !.params = @ \cup {update},
                              !.updatedAt = clock]]
    /\ UNCHANGED processing

\* handleTaskFinalize of an existing task.
handleTaskFinalize(taskId) ==
    /\ tasks' = IF tasks[taskId].status \in {"working", "submitted"}
                THEN updateTaskStatus(tasks, taskId, "completed",
                                      ForcedResult, "", clock)
                ELSE tasks
    /\ UNCHANGED processing

\* POST /rpc: rateLimit, authenticateApiKey, then the handler of the method.
Rpc(ip, apiKey, method, taskId, update, type) ==
    LET client == <<ip, apiKey>>
        limit == rateLimit(rateLimits[client], clock)
    IN  /\ rateLimits' = [rateLimits EXCEPT ![client] = limit.entry]
        /\ IF ~limit.next
           THEN /\ Respond(client, method, 429, {"rateLimit"})
                /\ UNCHANGED <<tasks, processing>>
           ELSE IF ~authenticateApiKey(apiKey)
           THEN /\ Respond(client, method, 401,
                           {"rateLimit", "authenticateApiKey"})
                /\ UNCHANGED <<tasks, processing>>
           ELSE IF method \notin Methods
           THEN /\ Respond(client, method, 400,
                           {"rateLimit", "authenticateApiKey", "handler"})
                /\ UNCHANGED <<tasks, processing>>
           ELSE LET reached == {"rateLimit", "authenticateApiKey", "handler"}
                    Throw == /\ Respond(client, method, 500, reached)
                             /\ UNCHANGED <<tasks, processing>>
                    Return == Respond(client, method, 200, reached)
                IN  CASE method = "task.open" ->
                           handleTaskOpen(type) /\ Return
                      [] method = "task.status" ->
                           IF tasks[taskId] = NoTask
                           THEN Throw
                           ELSE Return /\ UNCHANGED <<tasks, processing>>
                      [] method = "task.update" ->
                           IF handleTaskUpdateError(taskId) # ""
                           THEN Throw
                           ELSE handleTaskUpdate(taskId, update) /\ Return
                      [] method = "task.finalize" ->
                           IF tasks[taskId] = NoTask
                           THEN Throw
                           ELSE handleTaskFinalize(taskId) /\ Return
        /\ lastTx' = NoTx
    /\ UNCHANGED <<now, chainVars, pipeVars, clock>>

\* processTask resumes when handleTask's timer has fired, and marks the task
\* 'completed' with the runtime's result.  MockAgentRuntime never rejects,
\* so the catch branches of processTask and handleTaskOpen do not run.
ProcessTaskResume(taskId) ==
    /\ processing[taskId].pc = "handleTask"
    /\ clock >= tasks[taskId].createdAt + HandleTaskDelay
    /\ tasks' = updateTaskStatus(tasks, taskId, "completed",
                                 handleTask(processing[taskId]), "", clock)
    /\ processing' = [processing EXCEPT ![taskId].pc = "done"]
    /\ lastReq' = NoReq
    /\ lastTx' = NoTx
    /\ UNCHANGED <<now, chainVars, pipeVars, clock, rateLimits>>

\* Time passes at the gateway.
ClockTick(d) ==
    /\ clock' = clock + d
    /\ lastReq' = NoReq
    /\ lastTx' = NoTx
    /\ UNCHANGED <<now, chainVars, pipeVars, rateLimits, tasks, processing>>

\* ----------------------------------------------------------------- time
\* block.timestamp of the next block.
Tick(d) ==
    /\ now' = now + d
    /\ lastTx' = NoTx
    /\ UNCHANGED <<chainVars, pipeVars, gatewayVars>>

\* ----------------------------------------------------------------- Init
Init ==
    /\ now = StartTime
    /\ policies = [c \in Targets |-> NoPolicy]
    /\ callRecords = [k \in Keys |-> NoRecord]
    /\ totalGasUsed = [c \in Targets |-> 0]
    /\ trustedCallers = {}
    /\ duels = [d \in DuelIds |-> NoDuel]
    /\ nextDuelId = 0
    /\ quests = [q \in QuestIds |-> NoQuest]
    /\ nextQuestId = 0
    /\ balances = InitialBalances
    /\ npcs = [n \in NpcIds |-> NoNPC]
    /\ nextTokenId = 0
    /\ registryOwner = Owner
    /\ actionMappings = [a \in ActionTypes |-> NoMapping]
    /\ authorizedCallers = {}
    /\ lastTx = NoTx
    /\ pc = [p \in Pipes |-> "idle"]
    /\ plan = [p \in Pipes |-> NoPlan]
    /\ result = [p \in Pipes |-> NoResult]
    /\ clock = 0
    /\ rateLimits = [c \in ClientIds |-> NoLimit]
    /\ tasks = [t \in TaskIds |-> NoTask]
    /\ processing = [t \in TaskIds |-> NoRun]
    /\ lastReq = NoReq

\* ------------------------------------------- Action (agent-runtime)
\* plan.action is modelled by its parts around '_' (plan.action.split('_')).
Observe == <<"observe">>
NoParams == [id |-> 0, winner |-> ZeroAddress]
ObservePlan == [action |-> Observe, params |-> NoParams]
ConcludeDuelPlan(duelId, winner) ==
    [action |-> <<"Arena", "concludeDuel">>,
     params |-> [id |-> duelId, winner |-> winner]]
CompleteQuestPlan(questId) ==
    [action |-> <<"Quest", "completeQuest">>,
     params |-> [id |-> questId, winner |-> ZeroAddress]]
RegisterNPCPlan == [action |-> <<"NPCRegistry", "registerNPC">>, params |-> NoParams]
\* A plan whose action is the empty string: !plan.action holds.
EmptyActionPlan == [action |-> <<>>, params |-> NoParams]

\* String.prototype.toLowerCase on the contract names in use.
toLowerCase(contractName) ==
    CASE contractName = "Arena" -> "arena"
      [] contractName = "Quest" -> "quest"
      [] contractName = "NPCRegistry" -> "npcregistry"
      [] contractName = "BehaviorController" -> "behaviorcontroller"
      [] OTHER -> contractName

\* addresses.json as the deploy script writes it: key -> deployed contract.
contractAddresses ==
    [k \in {"npcRegistry", "behaviorController", "arena", "quest",
            "gameActionAdapter", "mockToken"} |->
        CASE k = "arena" -> Arena
          [] k = "quest" -> Quest
          [] OTHER -> k]

Null == [contractAddress |-> ZeroAddress, methodSelector |-> ""]

parseActionName(actionName) ==
    LET contractName == actionName[1]
        methodName == actionName[2]
    IN  IF toLowerCase(contractName) \notin DOMAIN contractAddresses
        THEN Null
        ELSE [contractAddress |-> contractAddresses[toLowerCase(contractName)],
              methodSelector |-> MethodSelector(methodName)]

\* The objects execute returns: success, error and the keys present.
ObserveResult ==
    [success |-> TRUE, error |-> "", keys |-> {"success", "action", "result"}]
ValidationFailure(reason) ==
    [success |-> FALSE, error |-> "Validation failed: " \o reason,
     keys |-> {"success", "error", "action"}]
ExecutionFailure(message) ==
    [success |-> FALSE, error |-> message,
     keys |-> {"success", "error", "action", "params"}]
ExecutionSuccess ==
    [success |-> TRUE, error |-> "",
     keys |-> {"transactionHash", "blockNumber", "gasUsed", "success",
               "action", "params"}]

Return(p, r) ==
    /\ pc' = [pc EXCEPT ![p] = "done"]
    /\ result' = [result EXCEPT ![p] = r]

Goto(p, label) ==
    /\ pc' = [pc EXCEPT ![p] = label]
    /\ UNCHANGED result

Execute_ObserveRecorded(p, pl) ==
    /\ pc[p] \in {"idle", "done"}
    /\ plan' = [plan EXCEPT ![p] = pl]
    /\ lastTx' = NoTx
    /\ UNCHANGED <<now, gatewayVars, policies, trustedCallers, entityVars>>
    /\ IF pl.action = Observe
       THEN /\ recordCallWithGas(Arena, ConcludeDuelSelector, 0)
            /\ Return(p, ObserveResult)
       ELSE /\ UNCHANGED <<callRecords, totalGasUsed>>
            /\ IF pl.action = <<>>
               THEN Return(p, ExecutionFailure("Unknown contract: "))
               ELSE IF parseActionName(pl.action) = Null
               THEN Return(p, ValidationFailure("Invalid action format"))
               ELSE Goto(p, "isAllowed")

\* execute(plan) up to the first BehaviorController query: the observe
\* short-circuit, provider.getBalance, and parseActionName in
\* validateExecution.  validateExecution returns valid for a plan without
\* an action, and executeContractCall then throws on the unknown contract
\* before any transaction is sent.
Execute(p, pl) ==
    /\ pc[p] \in {"idle", "done"}
    /\ plan' = [plan EXCEPT ![p] = pl]
    /\ lastTx' = NoTx
    /\ UNCHANGED <<now, gatewayVars, chainVars>>
    /\ IF pl.action = Observe
       THEN Return(p, ObserveResult)
       ELSE IF pl.action = <<>>
       THEN Return(p, ExecutionFailure("Unknown contract: "))
       ELSE IF parseActionName(pl.action) = Null
       THEN Return(p, ValidationFailure("Invalid action format"))
       ELSE Goto(p, "isAllowed")

ValidateIsAllowed_GasFirst(p) ==
    /\ pc[p] = "isAllowed"
    /\ lastTx' = NoTx
    /\ UNCHANGED <<now, gatewayVars, chainVars, plan>>
    /\ LET info == parseActionName(plan[p].action) IN
       IF getRemainingGasBudget(info.contractAddress) = 0
       THEN Return(p, ValidationFailure("Gas budget exhausted"))
       ELSE IF ~isAllowed(info.contractAddress, info.methodSelector)
       THEN Return(p, ValidationFailure("Action not allowed by BehaviorController"))
       ELSE Goto(p, "checkRateLimit")

\* await behaviorControllerContract.isAllowed(contractAddress, methodSelector)
ValidateIsAllowed(p) ==
    /\ pc[p] = "isAllowed"
    /\ lastTx' = NoTx
    /\ UNCHANGED <<now, gatewayVars, chainVars, plan>>
    /\ LET info == parseActionName(plan[p].action) IN
       IF ~isAllowed(info.contractAddress, info.methodSelector)
       THEN Return(p, ValidationFailure("Action not allowed by BehaviorController"))
       ELSE Goto(p, "checkRateLimit")

ValidateRateLimit_Recording(p) ==
    /\ pc[p] = "checkRateLimit"
    /\ lastTx' = NoTx
    /\ UNCHANGED <<now, gatewayVars, policies, trustedCallers, entityVars, plan>>
    /\ LET info == parseActionName(plan[p].action) IN
       /\ recordCallWithGas(info.contractAddress, info.methodSelector, 0)
       /\ IF ~checkRateLimit(info.contractAddress, info.methodSelector)
          THEN Return(p, ValidationFailure("Rate limit exceeded"))
          ELSE Goto(p, "getRemainingGasBudget")

\* await behaviorControllerContract.checkRateLimit(contractAddress, methodSelector)
ValidateRateLimit(p) ==
    /\ pc[p] = "checkRateLimit"
    /\ lastTx' = NoTx
    /\ UNCHANGED <<now, gatewayVars, chainVars, plan>>
    /\ LET info == parseActionName(plan[p].action) IN
       IF ~checkRateLimit(info.contractAddress, info.methodSelector)
       THEN Return(p, ValidationFailure("Rate limit exceeded"))
       ELSE Goto(p, "getRemainingGasBudget")

\* await behaviorControllerContract.getRemainingGasBudget(contractAddress)
ValidateGasBudget(p) ==
    /\ pc[p] = "getRemainingGasBudget"
    /\ lastTx' = NoTx
    /\ UNCHANGED <<now, gatewayVars, chainVars, plan>>
    /\ LET info == parseActionName(plan[p].action) IN
       IF getRemainingGasBudget(info.contractAddress) = 0
       THEN Return(p, ValidationFailure("Gas budget exhausted"))
       ELSE Goto(p, "executeContractCall")

Confirm_Retry(p) ==
    /\ UNCHANGED <<now, gatewayVars, plan>>
    /\ IF lastTx'.ok
       THEN Goto(p, "recordCallInBehaviorController")
       ELSE Goto(p, "executeContractCall")

\* executeContractCall and transactionResponse.wait(): the transaction is
\* sent by the signer and mined; a revert throws into the catch block.
Confirm(p) ==
    /\ UNCHANGED <<now, gatewayVars, plan>>
    /\ IF lastTx'.ok
       THEN Goto(p, "recordCallInBehaviorController")
       ELSE Return(p, ExecutionFailure(lastTx'.err))

SubmitConcludeDuel(p) ==
    /\ pc[p] = "executeContractCall"
    /\ plan[p].action = <<"Arena", "concludeDuel">>
    /\ ConcludeDuel(Signer, plan[p].params.id, plan[p].params.winner)
    /\ Confirm(p)

SubmitCompleteQuest(p) ==
    /\ pc[p] = "executeContractCall"
    /\ plan[p].action = <<"Quest", "completeQuest">>
    /\ CompleteQuest(Signer, plan[p].params.id)
    /\ Confirm(p)

\* recordCallInBehaviorController(plan, gasUsed), gasUsed = startGas - endGas
\* of the signer's balance.  A revert of recordCallWithGas, or a negative
\* gasUsed that cannot be encoded as uint256, throws and is only logged.
GasDeltas == {GasUnit, 0 - GasUnit}
RecordCallInBehaviorController_Propagates(p) ==
    /\ pc[p] = "recordCallInBehaviorController"
    /\ UNCHANGED <<now, gatewayVars, plan>>
    /\ LET info == parseActionName(plan[p].action) IN
       \E gasUsed \in GasDeltas :
          IF gasUsed < 0
          THEN Reverted(NoTx)
          ELSE RecordCallWithGas(Signer, info.contractAddress,
                                 info.methodSelector, gasUsed)
    /\ IF lastTx'.ok /\ lastTx' # NoTx
       THEN Return(p, ExecutionSuccess)
       ELSE Return(p, ExecutionFailure(lastTx'.err))

RecordCallInBehaviorController(p) ==
    /\ pc[p] = "recordCallInBehaviorController"
    /\ UNCHANGED <<now, gatewayVars, plan>>
    /\ LET info == parseActionName(plan[p].action) IN
       \E gasUsed \in GasDeltas :
          IF gasUsed < 0
          THEN Reverted(NoTx)
          ELSE RecordCallWithGas(Signer, info.contractAddress,
                                 info.methodSelector, gasUsed)
    /\ Return(p, ExecutionSuccess)

\* One step of one invocation of execute; plans are the plans it is given.
PipelineStep(pipes, plans) ==
    \/ \E p \in pipes, pl \in plans : Execute(p, pl)
    \/ \E p \in pipes : ValidateIsAllowed(p)
    \/ \E p \in pipes : ValidateRateLimit(p)
    \/ \E p \in pipes : ValidateGasBudget(p)
    \/ \E p \in pipes : SubmitConcludeDuel(p)
    \/ \E p \in pipes : SubmitCompleteQuest(p)
    \/ \E p \in pipes : RecordCallInBehaviorController(p)

\* The next block is mined d seconds later, d in steps; the steps are taken
\* between from and horizon seconds after StartTime.
TimeStep(steps, from, horizon) ==
    \E d \in steps :
        /\ StartTime + from <= now
        /\ now + d <= StartTime + horizon
        /\ Tick(d)

\* ------------------------------------------------- the contracts' steps
\* Transactions sent to the BehaviorController by callers, with setPolicy
\* inputs ins and role grants to the accounts grantees.
PolicyStep(callers, ins) ==
    \/ \E caller \in callers, in \in ins : Tx(SetPolicy(caller, in))
    \/ \E caller \in callers, c \in {in[1] : in \in ins} : Tx(ActivatePolicy(caller, c))
    \/ \E caller \in callers, c \in {in[1] : in \in ins} : Tx(DeactivatePolicy(caller, c))

RoleStep(callers, grantees) ==
    \/ \E caller \in callers, a \in grantees : Tx(GrantTrustedCallerRole(caller, a))
    \/ \E caller \in callers, a \in grantees : Tx(RevokeTrustedCallerRole(caller, a))

\* Transactions sent to the Arena: at most maxDuels duels are created, and
\* concludeDuel is sent by concluders.
ArenaStep(concluders, maxDuels) ==
    \/ \E player2 \in Players, funded \in BOOLEAN :
           nextDuelId < maxDuels /\ Tx(CreateDuel(Player1, player2, funded))
    \/ \E caller \in Players, d \in DuelIds, funded \in BOOLEAN :
           Tx(AcceptDuel(caller, d, funded))
    \/ \E caller \in concluders, d \in DuelIds, w \in {Player1, Owner} :
           Tx(ConcludeDuel(caller, d, w))

QuestStep ==
    \/ \E funded \in BOOLEAN : Tx(CreateQuest(Player1, funded))
    \/ \E q \in QuestIds : Tx(AcceptQuest(Player2, q))
    \/ \E caller \in {Player2, Owner}, q \in QuestIds : Tx(CompleteQuest(caller, q))

\* ---------------------------------------------- Spec: the contracts
FixturePolicies ==
    { <<Arena, {ConcludeDuelSelector}, GasBudget, 10, 100>>,
      <<Quest, {CompleteQuestSelector}, GasBudget, 5, 50>> }

Next ==
    \/ PolicyStep({Owner, Signer}, FixturePolicies)
    \/ RoleStep({Owner}, {Arena, Quest})
    \/ ArenaStep({Owner}, AuthDuels)
    \/ QuestStep
    \/ TimeStep({RateStep}, 0, AuthElapsed)

Spec == Init /\ [][Next]_vars

\* ------------------------------- SpecPipeline: the agent's pipeline
\* The system as deployNPCSystemFixture deploys it: the policies of the
\* Arena and of the Quest are set and both contracts hold the trusted-caller
\* role.
ArenaFixturePolicy == <<Arena, {ConcludeDuelSelector}, GasBudget, 10, 100>>
QuestFixturePolicy == <<Quest, {CompleteQuestSelector}, GasBudget, 5, 50>>

PolicyOf(in) ==
    [methodAllowlist |-> in[2], gasBudget |-> in[3], callRateLimit |-> in[4],
     dailyCallLimit |-> in[5], isActive |-> TRUE]

InitDeployed ==
    /\ now = StartTime
    /\ policies = [c \in Targets |->
                      IF c = Arena THEN PolicyOf(ArenaFixturePolicy)
                                   ELSE PolicyOf(QuestFixturePolicy)]
    /\ callRecords = [k \in Keys |-> NoRecord]
    /\ totalGasUsed = [c \in Targets |-> 0]
    /\ trustedCallers = {Arena, Quest}
    /\ duels = [d \in DuelIds |-> NoDuel]
    /\ nextDuelId = 0
    /\ quests = [q \in QuestIds |-> NoQuest]
    /\ nextQuestId = 0
    /\ balances = InitialBalances
    /\ npcs = [n \in NpcIds |-> NoNPC]
    /\ nextTokenId = 0
    /\ registryOwner = Owner
    /\ actionMappings = [a \in ActionTypes |-> NoMapping]
    /\ authorizedCallers = {}
    /\ lastTx = NoTx
    /\ pc = [p \in Pipes |-> "idle"]
    /\ plan = [p \in Pipes |-> NoPlan]
    /\ result = [p \in Pipes |-> NoResult]
    /\ clock = 0
    /\ rateLimits = [c \in ClientIds |-> NoLimit]
    /\ tasks = [t \in TaskIds |-> NoTask]
    /\ processing = [t \in TaskIds |-> NoRun]
    /\ lastReq = NoReq

\* Policies the manager sets for the agent: they also allowlist the selector
\* the pipeline derives; the Arena's has daily limit 1.
PipelinePolicies ==
    { <<Arena, {MethodSelector("concludeDuel")}, GasBudget, 10, 1>>,
      <<Quest, {MethodSelector("completeQuest")}, GasBudget, 5, 50>> }

Plans ==
    {ObservePlan, RegisterNPCPlan, CompleteQuestPlan(0)}
        \cup {ConcludeDuelPlan(d, Player1) : d \in 0 .. (PipeDuels - 1)}

\* The transactions of the operator and of the players beside the agent's.
SetupStep ==
    \/ \E in \in PipelinePolicies : Tx(SetPolicy(Owner, in))
    \/ Tx(GrantTrustedCallerRole(Owner, Signer))
    \/ nextDuelId < PipeDuels /\ Tx(CreateDuel(Player1, Player2, TRUE))
    \/ \E d \in DuelIds : Tx(AcceptDuel(Player2, d, TRUE))
    \/ \E d \in DuelIds : Tx(ConcludeDuel(Owner, d, Player1))

NextPipeline ==
    \/ SetupStep
    \/ PipelineStep({1}, Plans)
    \/ TimeStep({RateStep, RateStep + 1}, 0, MaxElapsed)

SpecPipeline == InitDeployed /\ [][NextPipeline]_vars

\* ------------------- SpecRace: two concurrent invocations of execute
NextRace ==
    \/ SetupStep
    \/ PipelineStep(Pipes, {CompleteQuestPlan(0), ConcludeDuelPlan(0, Player1)})

SpecRace == InitDeployed /\ [][NextRace]_vars

\* --------------------- SpecLedger: the call ledger across a daily window
\* The policies of the fixture and of the rate-limit test, and one with
\* daily limit 1.
LedgerPolicies ==
    { ArenaFixturePolicy,
      <<Arena, {ConcludeDuelSelector}, GasBudget, 1, 10>>,
      <<Arena, {ConcludeDuelSelector}, GasBudget, 10, 1>> }

\* Blocks RateStep and RateStep + 1 seconds apart (the rate interval is
\* 60 / 10 = 6 s), before and after one step just short of the daily window.
DayStep == DAY - (RateStep + 1)
LedgerTimeStep ==
    \/ TimeStep({RateStep, RateStep + 1}, 0, LedgerElapsed)
    \/ TimeStep({DayStep}, 0, DAY + LedgerElapsed)
    \/ TimeStep({RateStep, RateStep + 1}, DayStep, DAY + LedgerElapsed)

\* recordCall as the Arena sends it from concludeDuel, and as an account
\* without the trusted-caller role sends it.
NextLedger ==
    \/ PolicyStep({Owner}, LedgerPolicies)
    \/ \E caller \in {Arena, Owner} :
           Tx(RecordCallWithGas(caller, Arena, ConcludeDuelSelector, 0))
    \/ LedgerTimeStep

SpecLedger == InitDeployed /\ [][NextLedger]_vars

\* ------------- SpecExecute: one invocation of execute at a time, one duel
\* Policies the manager sets for the agent's selectors: the fixture's
\* limits, and one with no gas budget.
ExecutePolicies ==
    { <<Arena, {MethodSelector("concludeDuel")}, GasBudget, 10, 100>>,
      <<Arena, {MethodSelector("concludeDuel")}, 0, 10, 100>>,
      <<Quest, {MethodSelector("completeQuest")}, GasBudget, 5, 50>> }

ExecutePlans ==
    {ObservePlan, EmptyActionPlan, RegisterNPCPlan, CompleteQuestPlan(0),
     ConcludeDuelPlan(0, Player1)}

ExecuteSetupStep ==
    \/ \E in \in ExecutePolicies : Tx(SetPolicy(Owner, in))
    \/ Tx(DeactivatePolicy(Owner, Arena))
    \/ RoleStep({Owner}, {Signer})
    \/ nextDuelId < AuthDuels /\ Tx(CreateDuel(Player1, Player2, TRUE))
    \/ \E d \in DuelIds : Tx(AcceptDuel(Player2, d, TRUE))

NextExecute ==
    \/ ExecuteSetupStep
    \/ PipelineStep({1}, ExecutePlans)
    \/ TimeStep({RateStep}, 0, AuthElapsed)

SpecExecute == InitDeployed /\ [][NextExecute]_vars

\* ------- SpecAccounting: the ledger's and the policies' write access
AccountingPolicies ==
    { ArenaFixturePolicy,
      <<Arena, {CompleteQuestSelector}, GasUnit, 0, 0>> }

NextAccounting ==
    \/ PolicyStep({Owner, Signer}, AccountingPolicies)
    \/ RoleStep({Owner, Signer}, {Arena, Signer})
    \/ \E caller \in {Owner, Signer, Arena}, gasUsed \in {0, GasUnit, 2 * GasUnit} :
           Tx(RecordCallWithGas(caller, Arena, ConcludeDuelSelector, gasUsed))
    \/ ArenaStep({Owner}, AuthDuels)
    \/ TimeStep({RateStep}, 0, AuthElapsed)

SpecAccounting == Init /\ [][NextAccounting]_vars

\* --------------------- SpecPolicy: the policy store beside the ledger
\* The manager sets, deactivates and activates the policies of both
\* entities while a trusted caller fills the Arena's ledger.
PolicyInputs ==
    { ArenaFixturePolicy, QuestFixturePolicy,
      <<Arena, {CompleteQuestSelector}, GasUnit, 0, 0>> }

NextPolicy ==
    \/ PolicyStep({Owner, Signer}, PolicyInputs)
    \/ RoleStep({Owner}, {Arena})
    \/ \E gasUsed \in {0, GasUnit} :
           Tx(RecordCallWithGas(Arena, Arena, ConcludeDuelSelector, gasUsed))
    \/ TimeStep({RateStep}, 0, AuthElapsed)

SpecPolicy == Init /\ [][NextPolicy]_vars

\* -------------------- SpecEntities: the entities of the deployed system
\* Transactions sent to the Arena and the Quest of the deployed fixture
\* while the manager switches their policies and their roles.
NextEntities ==
    \/ PolicyStep({Owner}, FixturePolicies)
    \/ RoleStep({Owner}, {Arena, Quest})
    \/ ArenaStep({Owner}, AuthDuels)
    \/ QuestStep
    \/ TimeStep({RateStep}, 0, AuthElapsed)

SpecEntities == InitDeployed /\ [][NextEntities]_vars

\* ------------------- SpecQuota: the daily quota of an unthrottled policy
\* The manager sets a policy with no per-minute rate limit and a daily limit
\* of one call for the Arena, beside the fixture's, while the Arena records
\* calls.
QuotaPolicies ==
    { ArenaFixturePolicy,
      <<Arena, {ConcludeDuelSelector}, GasBudget, 0, 1>> }

NextQuota ==
    \/ PolicyStep({Owner}, QuotaPolicies)
    \/ Tx(RecordCallWithGas(Arena, Arena, ConcludeDuelSelector, 0))
    \/ TimeStep({RateStep}, 0, MaxElapsed)

SpecQuota == InitDeployed /\ [][NextQuota]_vars

\* ---------------- SpecAdapter: guarded calls through GameActionAdapter
\* The adapter of the deployed system: its owner maps the action type
\* "concludeDuel" and authorizes the signer, the manager grants the adapter
\* the trusted-caller role and switches the Arena's policy, and duels are
\* concluded directly and through the adapter.
AdapterMappings ==
    { <<Arena, ConcludeDuelSelector, TRUE, 0>>,
      <<Arena, ConcludeDuelSelector, FALSE, 0>>,
      <<Quest, ConcludeDuelSelector, TRUE, 0>> }

AdapterStep ==
    \/ \E caller \in {Owner, Signer}, in \in AdapterMappings :
           Tx(SetActionMapping(caller, "concludeDuel", in))
    \/ \E caller \in {Owner, Signer} : Tx(AuthorizeAddress(caller, Signer))
    \/ \E caller \in {Owner, Signer} : Tx(RevokeAuthorization(caller, Signer))
    \/ \E caller \in {Owner, Signer}, a \in ActionTypes, d \in DuelIds,
          w \in {Player1, Owner} :
           Tx(ExecuteAction(caller, a, d, w))

NextAdapter ==
    \/ AdapterStep
    \/ RoleStep({Owner}, {Adapter})
    \/ PolicyStep({Owner}, {ArenaFixturePolicy})
    \/ ArenaStep({Owner}, AuthDuels)
    \/ TimeStep({RateStep, RateStep + 1}, 0, MaxElapsed)

SpecAdapter == InitDeployed /\ [][NextAdapter]_vars

\* ------------------------- SpecEscrow: the stakes the Arena holds
\* Several duels of the deployed system, created, accepted and concluded
\* in any order; the token moves only through the Arena's own calls.
NextEscrow ==
    \/ ArenaStep({Owner}, MaxDuels)
    \/ PolicyStep({Owner}, {ArenaFixturePolicy})
    \/ TimeStep({RateStep}, 0, AuthElapsed)

SpecEscrow == InitDeployed /\ [][NextEscrow]_vars

\* ----------------------------------------- SpecGateway: the task table
\* One client with the valid API key opens, reads, updates and finalizes
\* tasks, or names a method the gateway does not have, while the tasks'
\* processTask runs are pending; at most MaxRpcs requests are sent.
ClockStep(steps, horizon) ==
    \E d \in steps : clock + d <= horizon /\ ClockTick(d)

RpcStep(keys, methods, maxRpcs) ==
    \E ip \in Ips, apiKey \in keys, method \in methods,
       taskId \in TaskIds, update \in {"u"} :
        /\ rateLimits[<<ip, apiKey>>].count < maxRpcs
        /\ Rpc(ip, apiKey, method, taskId, update, "duel")

NextGateway ==
    \/ RpcStep({DefaultApiKey}, Methods \cup {"task.cancel"}, MaxRpcs)
    \/ \E taskId \in TaskIds : ProcessTaskResume(taskId)
    \/ ClockStep({HandleTaskDelay}, TaskElapsed)

SpecGateway == InitDeployed /\ [][NextGateway]_vars

\* ---------------------------------------- SpecLimiter: the rate limiter
\* Both client keys send task.status requests through whole windows, the
\* clock passing the end of a window exactly and by one millisecond.
NextLimiter ==
    \/ RpcStep(ApiKeys, {"task.status"}, MaxRequests + 1)
    \/ ClockStep({WindowMs, WindowMs + 1}, LimiterElapsed)

SpecLimiter == InitDeployed /\ [][NextLimiter]_vars

\* ------------------------------------- SpecRegistry: the NPC registry
\* Transactions sent to the NPCRegistry from the state its constructor
\* leaves.
RegistryCallers == {Owner, Player1, Player2}
RegistryOwners == {Owner, Player1}
RegistryControllers == {Signer, Player1}
RegistryMetadata == {"test", "https://ipfs.io/ipfs/QmExampleNPC"}

NextRegistry ==
    \/ \E caller \in RegistryCallers, owner \in RegistryOwners,
          controller \in RegistryControllers, uri \in RegistryMetadata :
           Tx(RegisterNPC(caller, owner, controller, uri))
    \/ \E caller \in RegistryCallers, n \in NpcIds,
          controller \in RegistryControllers :
           Tx(UpdateNPCController(caller, n, controller))
    \/ \E caller \in RegistryCallers, n \in NpcIds, uri \in RegistryMetadata :
           Tx(UpdateNPCMetadata(caller, n, uri))
    \/ \E caller \in RegistryCallers, newOwner \in {Player2, ZeroAddress} :
           Tx(TransferOwnership(caller, newOwner))

SpecRegistry == Init /\ [][NextRegistry]_vars

\* ------ SpecWait: the wait for the confirmation of a sent transaction
\* executeContractCall returns the transaction response once the transaction
\* is sent; it is not mined yet.
SendTransaction(p) ==
    /\ pc[p] = "executeContractCall"
    /\ lastTx' = NoTx
    /\ UNCHANGED <<now, gatewayVars, chainVars, plan>>
    /\ Goto(p, "wait")

\* await transactionResponse.wait() returns or throws when the network has
\* mined the transaction; the call sets no timeout.
WaitConcludeDuel(p) ==
    /\ pc[p] = "wait"
    /\ plan[p].action = <<"Arena", "concludeDuel">>
    /\ ConcludeDuel(Signer, plan[p].params.id, plan[p].params.winner)
    /\ Confirm(p)

\* The steps an invocation takes by itself once its awaited call returns.
RuntimeStep(p) ==
    \/ ValidateIsAllowed(p)
    \/ ValidateRateLimit(p)
    \/ ValidateGasBudget(p)
    \/ SendTransaction(p)
    \/ RecordCallInBehaviorController(p)

WaitSetupStep ==
    \/ \E in \in ExecutePolicies : Tx(SetPolicy(Owner, in))
    \/ Tx(GrantTrustedCallerRole(Owner, Signer))
    \/ nextDuelId < AuthDuels /\ Tx(CreateDuel(Player1, Player2, TRUE))
    \/ \E d \in DuelIds : Tx(AcceptDuel(Player2, d, TRUE))

NextWait ==
    \/ WaitSetupStep
    \/ Execute(1, ConcludeDuelPlan(0, Player1))
    \/ RuntimeStep(1)
    \/ WaitConcludeDuel(1)

\* The runtime goes on whenever its awaited query has returned; nothing
\* obliges the network to mine a transaction that was sent.
SpecWait == InitDeployed /\ [][NextWait]_vars /\ WF_vars(RuntimeStep(1))

\* ===================================================== the claims
\* What the specification calls authorized, and a daily quota with room
\* left, stated on the stored policy and record.
Authorized(c, m) ==
    policies[c].isActive /\ m \in policies[c].methodAllowlist

DailyQuotaLeft(c, m) ==
    \/ policies[c].dailyCallLimit = 0
    \/ now >= callRecords[<<c, m>>].lastDayReset + DAY
    \/ callRecords[<<c, m>>].dailyCount < policies[c].dailyCallLimit

ArenaKey == <<Arena, ConcludeDuelSelector>>

\* C1: concludeDuel and completeQuest take effect only if, at the call, the
\* entity's policy is active and allowlists the operation; a call made
\* without that is rejected and changes no contract state.
C1_GuardedOnlyIfAllowed ==
    [][ /\ \A d \in DuelIds :
              (duels[d].state # "CONCLUDED" /\ duels'[d].state = "CONCLUDED")
                  => Authorized(Arena, ConcludeDuelSelector)
        /\ \A q \in QuestIds :
              (quests[q].state # "COMPLETED" /\ quests'[q].state = "COMPLETED")
                  => Authorized(Quest, CompleteQuestSelector)
        /\ (lastTx'.fn = "concludeDuel" /\ ~Authorized(Arena, ConcludeDuelSelector))
              => (~lastTx'.ok /\ UNCHANGED chainVars)
        /\ (lastTx'.fn = "completeQuest" /\ ~Authorized(Quest, CompleteQuestSelector))
              => (~lastTx'.ok /\ UNCHANGED chainVars)
        /\ (lastTx'.fn \in {"concludeDuel", "completeQuest"} /\ lastTx'.ok)
              => (callRecords' # callRecords)
      ]_vars

\* C1 witness: a duel was concluded and a quest completed under their
\* policies, and a later completeQuest was rejected as not allowed.
C1_Witness ==
    /\ \E d \in DuelIds : duels[d].state = "CONCLUDED"
    /\ \E q \in QuestIds : quests[q].state = "COMPLETED"
    /\ lastTx.fn = "completeQuest"
    /\ lastTx.err = ErrNotAllowed

\* C2: with a rate limit configured for (Arena, concludeDuel) and a
\* concludeDuel already recorded, a concludeDuel sent while checkRateLimit
\* is false is rejected by the Arena.
C2_ExcessiveConcludeRejected ==
    [][ ( /\ policies[Arena].callRateLimit > 0
          /\ callRecords[ArenaKey].lastCalled > 0
          /\ ~checkRateLimit(Arena, ConcludeDuelSelector)
          /\ lastTx'.fn = "concludeDuel"
          /\ \E d \in DuelIds : duels[d].state = "ACTIVE" )
        => \A d \in DuelIds : duels'[d].state = duels[d].state
      ]_vars

\* C3: isAllowed is true exactly when the policy is active and the
\* operation is in its allowlist, and false for every inactive policy.
C3_IsAllowedIffActiveAndListed ==
    \A c \in Targets, m \in Selectors :
        /\ isAllowed(c, m) <=> Authorized(c, m)
        /\ ~policies[c].isActive => ~isAllowed(c, m)

\* C3 witness: a deactivated policy whose allowlist still holds the
\* operation, beside a target that never had a policy set.
C3_Witness ==
    /\ ~policies[Arena].isActive
    /\ ConcludeDuelSelector \in policies[Arena].methodAllowlist
    /\ ~isAllowed(Arena, ConcludeDuelSelector)
    /\ policies[Quest] = NoPolicy

\* C4: while the Arena's policy is inactive, concludeDuel on an ACTIVE duel
\* fails as not allowed and the duel stays ACTIVE, whatever the allowlist.
C4_DeactivatedPolicyBlocksConclude ==
    [][ \A d \in DuelIds :
          ( /\ duels[d].state = "ACTIVE"
            /\ ~policies[Arena].isActive
            /\ lastTx'.fn = "concludeDuel" )
          => ( /\ ~lastTx'.ok
               /\ lastTx'.err = ErrNotAllowed
               /\ duels'[d] = duels[d] )
      ]_vars

\* C4 witness: the policy was deactivated after acceptDuel, the allowlist
\* still holds concludeDuel, and concludeDuel has just been rejected.
C4_Witness ==
    /\ \E d \in DuelIds : duels[d].state = "ACTIVE"
    /\ ~policies[Arena].isActive
    /\ ConcludeDuelSelector \in policies[Arena].methodAllowlist
    /\ hasTrustedCallerRole(Arena)
    /\ lastTx = Revert("concludeDuel", Owner, ErrNotAllowed)

\* C5: under the fixture policy (allowlist: concludeDuel, rate 10, daily
\* 100) an execute of a concludeDuel plan on an ACTIVE duel, with no call
\* recorded yet, returns success.
C5_ScenarioFirstCallSucceeds ==
    [][ \A p \in Pipes :
          ( /\ pc[p] \notin {"idle", "done"}
            /\ pc'[p] = "done"
            /\ plan[p].action = <<"Arena", "concludeDuel">>
            /\ policies[Arena] = PolicyOf(ArenaFixturePolicy)
            /\ hasTrustedCallerRole(Arena)
            /\ callRecords[ArenaKey] = NoRecord
            /\ duels[plan[p].params.id].state = "ACTIVE" )
          => result'[p].success
      ]_vars

\* C6: for an active policy with a rate limit and daily quota left, after a
\* recorded call the check passes iff now - lastCalled > 60 / rateLimit;
\* with 10 calls per minute it fails up to and including 6 s and passes
\* after.
C6_MinuteCheckStrict ==
    \A c \in Targets, m \in Selectors :
        LET policy == policies[c]
            record == callRecords[<<c, m>>]
        IN  ( /\ policy.isActive
              /\ policy.callRateLimit > 0
              /\ record.lastCalled > 0
              /\ DailyQuotaLeft(c, m) )
            => /\ checkRateLimit(c, m)
                    <=> (now - record.lastCalled > 60 \div policy.callRateLimit)
               /\ policy.callRateLimit = 10
                    => (checkRateLimit(c, m) <=> now - record.lastCalled > 6)

\* C6 witness: rate limit 10, exactly 6 s after the recorded call, quota
\* left, and the check fails.
C6_Witness ==
    /\ policies[Arena].isActive
    /\ policies[Arena].callRateLimit = 10
    /\ callRecords[ArenaKey].lastCalled > 0
    /\ now - callRecords[ArenaKey].lastCalled = 6
    /\ DailyQuotaLeft(Arena, ConcludeDuelSelector)
    /\ ~checkRateLimit(Arena, ConcludeDuelSelector)

\* C7: with daily limit 1 and a call recorded in the current window, a
\* pipeline call rejected by the daily quota (the minute check passes) is
\* reported with a reason other than the rate-limit reason.
C7_DailyLimitDistinguished ==
    [][ \A p \in Pipes :
          LET info == parseActionName(plan[p].action)
              policy == policies[info.contractAddress]
              record == callRecords[<<info.contractAddress, info.methodSelector>>]
          IN  ( /\ pc[p] = "checkRateLimit"
                /\ pc'[p] = "done"
                /\ policy.dailyCallLimit = 1
                /\ record.dailyCount >= 1
                /\ now < record.lastDayReset + DAY
                /\ now - record.lastCalled > 60 \div policy.callRateLimit )
              => result'[p].error # ValidationFailure("Rate limit exceeded").error
      ]_vars

\* C8: a recorded call sets lastCalled = now; it sets dailyCount = 1 and
\* lastDayReset = now when now >= lastDayReset + 86400, and otherwise adds
\* one to dailyCount and keeps lastDayReset; dailyCount is at least 1 after.
C8_RecordCallUpdate ==
    [][ /\ \A k \in Keys :
              LET old == callRecords[k]
                  new == callRecords'[k]
              IN  new # old =>
                    /\ new.lastCalled = now
                    /\ new.lastCalled > 0
                    /\ new.dailyCount >= 1
                    /\ old = NoRecord => new.dailyCount = 1
                    /\ IF now >= old.lastDayReset + 86400
                       THEN new.dailyCount = 1 /\ new.lastDayReset = now
                       ELSE /\ new.dailyCount = old.dailyCount + 1
                            /\ new.lastDayReset = old.lastDayReset
        /\ (lastTx'.fn = "recordCallWithGas" /\ lastTx'.ok)
              => callRecords'[ArenaKey] # callRecords[ArenaKey]
      ]_vars

\* C8 witness: a call recorded in the first window (dailyCount 2 or more
\* was reached) and then one that reset the count in the next window.
C8_Witness ==
    /\ lastTx = Ok("recordCallWithGas", Arena)
    /\ callRecords[ArenaKey].dailyCount = 1
    /\ callRecords[ArenaKey].lastCalled = now
    /\ callRecords[ArenaKey].lastDayReset >= StartTime + DAY

\* C9 as stated: every reset of an existing window advances lastDayReset by
\* exactly 86400.
C9_ResetAdvancesExactlyOneDay ==
    [][ \A k \in Keys :
          ( /\ callRecords[k].lastDayReset > 0
            /\ callRecords'[k].lastDayReset # callRecords[k].lastDayReset )
          => callRecords'[k].lastDayReset = callRecords[k].lastDayReset + 86400
      ]_vars

\* C9 amended: every reset sets lastDayReset to the time of the call that
\* triggers it, at least 86400 after its previous value, with dailyCount 1.
C9_ResetAnchorsAtCallTime ==
    [][ \A k \in Keys :
          callRecords'[k].lastDayReset # callRecords[k].lastDayReset
          => /\ callRecords'[k].lastDayReset = now
             /\ callRecords'[k].lastDayReset >= callRecords[k].lastDayReset + 86400
             /\ callRecords'[k].dailyCount = 1
      ]_vars

\* C9 witness: a window reset at a time that is no whole day after any
\* earlier block time.
C9_Witness ==
    /\ callRecords[ArenaKey].lastDayReset = StartTime + DayStep + 2 * RateStep
    /\ callRecords[ArenaKey].dailyCount = 1

\* C10: two invocations validating against the same key under a rate limit
\* are never both past validation and about to submit.
C10_NoDoubleValidation ==
    \A p, q \in Pipes :
        ( /\ p # q
          /\ pc[p] = "executeContractCall"
          /\ pc[q] = "executeContractCall"
          /\ plan[p].action = plan[q].action )
        => policies[parseActionName(plan[p].action).contractAddress].callRateLimit = 0

\* The labels of an invocation that has sent no transaction yet, the errors
\* of a failed validation, and the key the pipeline derives for concludeDuel.
ValidationLabels == {"isAllowed", "checkRateLimit", "getRemainingGasBudget"}

ValidationErrors ==
    { "Validation failed: Invalid action format",
      "Validation failed: Action not allowed by BehaviorController",
      "Validation failed: Rate limit exceeded",
      "Validation failed: Gas budget exhausted" }

PipelineArenaKey == <<Arena, "concludeDuel(...)">>

\* C11: an invocation that ends in a validation failure has sent no
\* transaction, and none of its steps up to the failure changes a policy, a
\* CallRecord, the gas used, a duel or a quest.
C11_ValidationFailureNoEffect ==
    [][ \A p \in Pipes :
          /\ ( /\ pc'[p] = "done"
               /\ result'[p].error \in ValidationErrors
               /\ <<pc'[p], plan'[p], result'[p]>> # <<pc[p], plan[p], result[p]>> )
             => /\ pc[p] \in ValidationLabels \cup {"idle", "done"}
                /\ ~result'[p].success
                /\ lastTx' = NoTx
                /\ UNCHANGED chainVars
          /\ (pc[p] \in ValidationLabels /\ pc'[p] # pc[p])
             => (lastTx' = NoTx /\ UNCHANGED chainVars)
      ]_vars

\* C11 witness: after one recorded call, a second invocation was rejected
\* by the rate limit, and the record still counts one call.
C11_Witness ==
    /\ pc[1] = "done"
    /\ result[1].error = "Validation failed: Rate limit exceeded"
    /\ lastTx = NoTx
    /\ callRecords[PipelineArenaKey].dailyCount = 1
    /\ callRecords[PipelineArenaKey].lastCalled = now

C13_ObserveTouchesNothing ==
    [][ \A p \in Pipes :
          /\ plan[p].action = <<"observe">> => pc[p] = "done"
          /\ ( /\ plan'[p].action = <<"observe">>
               /\ pc[p] \in {"idle", "done"}
               /\ \/ plan[p].action # <<"observe">>
                  \/ lastTx' = NoTx /\ now' = now )
             => /\ pc'[p] = "done"
                /\ result'[p].success
                /\ result'[p].error = ""
                /\ lastTx' = NoTx
                /\ UNCHANGED <<now, chainVars>>
      ]_vars

\* C13 witness: an observe plan was executed in a state with a recorded
\* call and a concluded duel; it returned success.
C13_Witness ==
    /\ pc[1] = "done"
    /\ plan[1].action = <<"observe">>
    /\ result[1].success
    /\ lastTx = NoTx
    /\ callRecords[PipelineArenaKey].dailyCount = 1
    /\ duels[0].state = "CONCLUDED"

\* C14: when the record of the call made after confirmation fails (the
\* signer lacks the trusted-caller role, or the gas figure cannot be
\* encoded), execute still returns success, and the effect of the confirmed
\* transaction stays: the duel is CONCLUDED and no entity state is undone.
C14_RecordFailureKeepsSuccess ==
    [][ \A p \in Pipes :
          (pc[p] = "recordCallInBehaviorController" /\ pc'[p] # pc[p])
          => /\ pc'[p] = "done"
             /\ result'[p].success
             /\ result'[p].error = ""
             /\ UNCHANGED entityVars
             /\ plan[p].action = <<"Arena", "concludeDuel">>
                   => duels'[plan[p].params.id].state = "CONCLUDED"
             /\ Signer \notin trustedCallers
                   => /\ lastTx' \in {NoTx, Revert("recordCallWithGas", Signer,
                                                  ErrUnauthorized)}
                      /\ UNCHANGED chainVars
      ]_vars

\* C14 witness: the signer's recordCallWithGas was rejected after its
\* concludeDuel was confirmed; execute returned success, the duel is
\* CONCLUDED and nothing is recorded under the pipeline's key.
C14_Witness ==
    /\ pc[1] = "done"
    /\ plan[1].action = <<"Arena", "concludeDuel">>
    /\ result[1].success
    /\ lastTx = Revert("recordCallWithGas", Signer, ErrUnauthorized)
    /\ duels[0].state = "CONCLUDED"
    /\ callRecords[PipelineArenaKey] = NoRecord

\* C15: an invocation sends its guarded transaction once, from the
\* submission it reaches after validation; when that transaction fails, the
\* invocation ends at once with success = false, the error of the failure,
\* and the plan's action and params, no state is changed, and the signer
\* sends nothing more for it.
C15_FailedSubmissionNotRetried ==
    [][ /\ \A p \in Pipes :
          /\ (pc'[p] = "executeContractCall" /\ pc[p] # pc'[p])
                => pc[p] = "getRemainingGasBudget"
          /\ (pc[p] = "executeContractCall" /\ pc'[p] # pc[p])
                => /\ lastTx'.sender = Signer
                   /\ lastTx'.fn \in {"concludeDuel", "completeQuest"}
                   /\ IF lastTx'.ok
                      THEN pc'[p] = "recordCallInBehaviorController"
                      ELSE /\ pc'[p] = "done"
                           /\ ~result'[p].success
                           /\ result'[p].error = lastTx'.err
                           /\ {"success", "error", "action", "params"}
                                 \subseteq result'[p].keys
                           /\ UNCHANGED chainVars
        /\ (lastTx'.sender = Signer /\ lastTx'.fn \in {"concludeDuel", "completeQuest"})
              => \E p \in Pipes :
                    /\ pc[p] = "executeContractCall"
                    /\ pc'[p] = IF lastTx'.ok THEN "recordCallInBehaviorController"
                                              ELSE "done"
        /\ lastTx'.sender = Signer
              => \E p \in Pipes :
                    /\ pc[p] \in {"executeContractCall", "recordCallInBehaviorController"}
                    /\ pc'[p] # pc[p]
      ]_vars

\* C15 witness: the signer's concludeDuel on a duel that is not ACTIVE
\* reverted, and the invocation ended with that error and the plan.
C15_Witness ==
    /\ pc[1] = "done"
    /\ plan[1].action = <<"Arena", "concludeDuel">>
    /\ lastTx = Revert("concludeDuel", Signer, "Duel not active")
    /\ ~result[1].success
    /\ result[1].error = "Duel not active"
    /\ {"action", "params"} \subseteq result[1].keys

\* C16: every finished invocation reports success, the action and the
\* params, and a validation failure carries its reason in a field `reason`
\* and not in `error`.
C16_OutcomeFields ==
    \A p \in Pipes :
        pc[p] = "done"
        => /\ {"success", "action", "params"} \subseteq result[p].keys
           /\ result[p].error \in ValidationErrors
                 => ("reason" \in result[p].keys /\ "error" \notin result[p].keys)

\* C17: every invocation that waits for the confirmation of its transaction
\* ends, also when the confirmation never arrives.
C17_WaitEnds ==
    \A p \in {1} : (pc[p] = "wait") ~> (pc[p] = "done")

\* C18: for every target, getRemainingGasBudget is gasBudget minus the gas
\* used while the gas used is below the budget, and 0 from then on; it is
\* never negative.
C18_RemainingBudgetClamped ==
    \A c \in Targets :
        LET budget == policies[c].gasBudget
            used == totalGasUsed[c]
        IN  /\ used < budget => getRemainingGasBudget(c) = budget - used
            /\ used >= budget => getRemainingGasBudget(c) = 0
            /\ getRemainingGasBudget(c) >= 0
            /\ getRemainingGasBudget(c) <= budget

\* C18 witness: recorded gas went past a budget that setPolicy had lowered,
\* and the remaining budget is 0.
C18_Witness ==
    /\ policies[Arena].gasBudget = GasUnit
    /\ totalGasUsed[Arena] > policies[Arena].gasBudget
    /\ getRemainingGasBudget(Arena) = 0
    /\ lastTx = Ok("recordCallWithGas", Arena)

C22_ActivationChangesOnlyFlag ==
    [][(lastTx'.fn \in {"activatePolicy", "deactivatePolicy"} /\ lastTx'.ok) =>
        /\ callRecords' = callRecords
        /\ totalGasUsed' = totalGasUsed
        /\ \E c \in Targets :
               /\ policies'[c] = [policies[c] EXCEPT
                      !.isActive = (lastTx'.fn = "activatePolicy")]
               /\ \A o \in Targets \ {c} : policies'[o] = policies[o]]_vars

\* The Arena's policy has just been deactivated with its allowlist, its
\* ledger and its gas usage filled, beside a set policy of the Quest.
C22_Witness ==
    /\ lastTx = Ok("deactivatePolicy", Owner)
    /\ ~policies[Arena].isActive
    /\ policies[Arena].methodAllowlist # {}
    /\ policies[Arena].gasBudget > 0
    /\ policies[Quest].isActive
    /\ callRecords[ArenaKey].dailyCount > 0
    /\ totalGasUsed[Arena] > 0

\* The revert reasons of the non-terminal transitions' own require()s.
NonTerminalErrors ==
    [createDuel |-> {"Cannot duel yourself", "Insufficient balance",
                     "Insufficient allowance"},
     acceptDuel |-> {"Duel not pending", "Not your duel",
                     "Insufficient balance", "Insufficient allowance"},
     createQuest |-> {"Insufficient balance", "Insufficient allowance"},
     acceptQuest |-> {"Quest not open"}]

C24_DuelStateMonotone ==
    [][/\ \A d \in DuelIds :
            /\ duels'[d].state # duels[d].state =>
                  \/ /\ duels[d].state = "PENDING"
                     /\ duels'[d].state = "ACTIVE"
                     /\ lastTx'.fn = "acceptDuel" /\ lastTx'.ok
                  \/ /\ duels[d].state = "ACTIVE"
                     /\ duels'[d].state = "CONCLUDED"
                     /\ lastTx'.fn = "concludeDuel" /\ lastTx'.ok
            /\ duels[d].state = "CONCLUDED" => duels'[d] = duels[d]
       /\ (lastTx'.fn = "acceptDuel" /\ lastTx'.ok) =>
             \E d \in DuelIds : /\ duels[d].state = "PENDING"
                                /\ duels'[d].state = "ACTIVE"
       /\ (lastTx'.fn = "concludeDuel" /\ lastTx'.ok) =>
             \E d \in DuelIds : /\ duels[d].state = "ACTIVE"
                                /\ duels'[d].state = "CONCLUDED"]_vars

\* A concludeDuel sent for an already concluded duel at a later time has
\* just been rejected.
C24_Witness ==
    /\ duels[0].state = "CONCLUDED"
    /\ duels[0].concludedAt < now
    /\ lastTx = Revert("concludeDuel", Owner, "Duel not active")

\* C25: for every quest id the state only moves OPEN -> IN_PROGRESS ->
\* COMPLETED over any sequence of createQuest, acceptQuest and completeQuest
\* calls: no step moves a quest backwards or skips a state, and a COMPLETED
\* quest keeps its state.
C25_QuestStateMonotone ==
    [][\A q \in QuestIds :
          quests'[q].state # quests[q].state =>
             \/ quests[q].state = "OPEN" /\ quests'[q].state = "IN_PROGRESS"
             \/ quests[q].state = "IN_PROGRESS" /\ quests'[q].state = "COMPLETED"]_vars

\* C26: a successful concludeDuel(duelId, winner) concludes an ACTIVE duel
\* with a winner that is one of the duel's two players, records that winner,
\* and moves exactly 2 x wager from the Arena to the winner and nothing else;
\* the Arena pays out in no other step, so each duel, concluded at most once,
\* is paid exactly once.
C26_ConcludePaysWinnerOnce ==
    [][/\ (lastTx'.fn = "concludeDuel" /\ lastTx'.ok) =>
             \E d \in DuelIds :
                 /\ duels[d].state = "ACTIVE"
                 /\ duels'[d].state = "CONCLUDED"
                 /\ duels'[d].winner \in
                        {duels[d].players[1], duels[d].players[2]}
                 /\ balances' = [balances EXCEPT
                        ![Arena] = @ - 2 * duels[d].wager,
                        ![duels'[d].winner] = @ + 2 * duels[d].wager]
                 /\ \A o \in DuelIds \ {d} : duels'[o] = duels[o]
       /\ balances'[Arena] < balances[Arena] =>
             lastTx'.fn = "concludeDuel" /\ lastTx'.ok]_vars

\* Player1 has just been recorded as the winner and holds both stakes.
C26_Witness ==
    /\ lastTx = Ok("concludeDuel", Owner)
    /\ duels[0].state = "CONCLUDED"
    /\ duels[0].winner = Player1
    /\ balances[Player1] = PlayerBalance + Wager
    /\ balances[Player2] = PlayerBalance - Wager
    /\ balances[Arena] = 0

\* C27: a successful completeQuest is sent by the recorded participant of an
\* IN_PROGRESS quest while the Quest's policy is active and allowlists
\* completeQuest, completes that quest and moves exactly its reward from the
\* Quest to the participant and nothing else; the Quest pays out in no other
\* step, so each quest, completed at most once, is paid exactly once.
C27_CompletePaysParticipantOnce ==
    [][/\ (lastTx'.fn = "completeQuest" /\ lastTx'.ok) =>
             /\ policies[Quest].isActive
             /\ CompleteQuestSelector \in policies[Quest].methodAllowlist
             /\ \E q \in QuestIds :
                   /\ quests[q].state = "IN_PROGRESS"
                   /\ quests'[q].state = "COMPLETED"
                   /\ lastTx'.sender = quests[q].participant
                   /\ quests'[q].participant = quests[q].participant
                   /\ balances' = [balances EXCEPT
                          ![Quest] = @ - quests[q].reward,
                          ![quests[q].participant] = @ + quests[q].reward]
                   /\ \A o \in QuestIds \ {q} : quests'[o] = quests[o]
       /\ balances'[Quest] < balances[Quest] =>
             lastTx'.fn = "completeQuest" /\ lastTx'.ok
       /\ \A q \in QuestIds :
             quests[q].state = "COMPLETED" => quests'[q] = quests[q]]_vars

\* Player2 has just completed the quest and holds the reward.
C27_Witness ==
    /\ lastTx = Ok("completeQuest", Player2)
    /\ quests[0].state = "COMPLETED"
    /\ quests[0].participant = Player2
    /\ balances[Player2] = PlayerBalance + Reward
    /\ balances[Quest] = 0

\* C28: registerNPC always succeeds, assigns the next id of the sequence
\* 0, 1, 2, ... (the counter rises by one in a registerNPC step and in no
\* other step, so no id is assigned twice), stores that id with the given
\* owner, controller and metadata under it, and leaves the record of every
\* other id as it was.
C28_RegisterAssignsFreshIds ==
    [][/\ lastTx'.fn = "registerNPC" =>
             /\ lastTx'.ok
             /\ nextTokenId' = nextTokenId + 1
             /\ \E owner \in RegistryOwners, controller \in RegistryControllers,
                   uri \in RegistryMetadata :
                    npcs'[nextTokenId] =
                        [id |-> nextTokenId, owner |-> owner,
                         controller |-> controller, metadataUri |-> uri]
             /\ \A n \in NpcIds \ {nextTokenId} : npcs'[n] = npcs[n]
       /\ nextTokenId' # nextTokenId => lastTx'.fn = "registerNPC"
       /\ \A n \in NpcIds :
             (n < nextTokenId /\ n < nextTokenId') =>
                 /\ npcs'[n].id = n
                 /\ npcs'[n].owner = npcs[n].owner]_vars

\* Two NPCs have been registered, under ids 0 and 1, for different owners.
C28_Witness ==
    /\ lastTx.fn = "registerNPC"
    /\ nextTokenId = 2
    /\ npcs[0].id = 0 /\ npcs[0].owner = Owner
    /\ npcs[1].id = 1 /\ npcs[1].owner = Player1
    /\ npcs[0].metadataUri # npcs[1].metadataUri

\* C29: a successful updateNPCController or updateNPCMetadata is sent by the
\* recorded owner of the NPC it changes or by the registry's owner and
\* changes only the named field of that one NPC; a call by an account that
\* is neither for any NPC fails, and a failed call leaves every record, the
\* id counter and the registry's owner unchanged.
C29_UpdatesByOwnerOnly ==
    [][lastTx'.fn \in {"updateNPCController", "updateNPCMetadata"} =>
        /\ nextTokenId' = nextTokenId
        /\ registryOwner' = registryOwner
        /\ (\A n \in NpcIds : lastTx'.sender \notin {npcs[n].owner, registryOwner})
              => ~lastTx'.ok
        /\ ~lastTx'.ok => npcs' = npcs /\ lastTx'.err = ErrNotOwner
        /\ (lastTx'.ok /\ lastTx'.fn = "updateNPCController") =>
              \E n \in NpcIds, controller \in RegistryControllers :
                  /\ lastTx'.sender \in {npcs[n].owner, registryOwner}
                  /\ npcs' = [npcs EXCEPT ![n].controller = controller]
        /\ (lastTx'.ok /\ lastTx'.fn = "updateNPCMetadata") =>
              \E n \in NpcIds, uri \in RegistryMetadata :
                  /\ lastTx'.sender \in {npcs[n].owner, registryOwner}
                  /\ npcs' = [npcs EXCEPT ![n].metadataUri = uri]]_vars

\* Player1, the owner of NPC 1 and not the registry's owner, has just
\* changed the controller of NPC 1, while NPC 0 keeps another controller.
C29_Witness ==
    /\ lastTx = Ok("updateNPCController", Player1)
    /\ registryOwner = Owner
    /\ nextTokenId = 2
    /\ npcs[0].owner = Owner /\ npcs[0].controller = Signer
    /\ npcs[1].owner = Player1 /\ npcs[1].controller = Player1

QuestKey == <<Quest, CompleteQuestSelector>>

\* The record r2 holds exactly one call more than r, made at time t.
OneCallRecorded(r, r2, t) ==
    /\ r2.lastCalled = t
    /\ \/ r2.dailyCount = r.dailyCount + 1 /\ r2.lastDayReset = r.lastDayReset
       \/ r2.dailyCount = 1 /\ r2.lastDayReset = t /\ t >= r.lastDayReset + DAY

C31_DailyQuotaEnforcedUnthrottled ==
    \A c \in Targets, m \in Selectors :
        LET policy == policies[c]
            record == callRecords[<<c, m>>]
        IN  ( /\ policy.isActive
              /\ policy.callRateLimit = 0
              /\ policy.dailyCallLimit > 0
              /\ now < record.lastDayReset + DAY
              /\ record.dailyCount >= policy.dailyCallLimit )
            => ~checkRateLimit(c, m)

\* C32: a guarded transition that takes effect raises dailyCount for
\* (target, operation) by exactly one, also when it is executed through
\* GameActionAdapter: the step in which a duel becomes CONCLUDED records
\* exactly one call for (Arena, concludeDuel).
C32_OneRecordPerGuardedCall ==
    [][\A d \in DuelIds :
          (duels[d].state # "CONCLUDED" /\ duels'[d].state = "CONCLUDED") =>
              OneCallRecorded(callRecords[ArenaKey], callRecords'[ArenaKey],
                              now)]_vars

\* executeAction reached its call of the target: the transaction was mined,
\* or it reverted in the recordCall that follows the call.
TargetInvoked(tx) ==
    /\ tx.fn = "executeAction"
    /\ tx.ok \/ tx.err = ErrUnauthorized

\* C35: executeAction reaches its call of the target only when the caller is
\* an authorized address or the adapter's owner and the action type is
\* mapped, and, for a mapping with requiresApproval, only when isAllowed and
\* checkRateLimit hold for (target, selector) in the state the call is made
\* in; the entities and balances change in an executeAction step only so.
C35_AdapterInvokesOnlyApproved ==
    [][(TargetInvoked(lastTx') \/
        (lastTx'.fn = "executeAction" /\ <<duels, balances>>' # <<duels, balances>>)) =>
        /\ lastTx'.sender \in authorizedCallers \cup {adapterOwner}
        /\ \E a \in ActionTypes :
              LET actionMapping == actionMappings[a] IN
              /\ actionMapping.targetContract # ZeroAddress
              /\ actionMapping.requiresApproval =>
                    /\ policies[actionMapping.targetContract].isActive
                    /\ actionMapping.functionSelector \in
                          policies[actionMapping.targetContract].methodAllowlist
                    /\ checkRateLimit(actionMapping.targetContract,
                                      actionMapping.functionSelector)]_vars

\* The authorized signer has just concluded the duel through a mapping that
\* requires approval.
C35_Witness ==
    /\ lastTx = Ok("executeAction", Signer)
    /\ Signer \in authorizedCallers
    /\ actionMappings["concludeDuel"] =
           [targetContract |-> Arena, functionSelector |-> ConcludeDuelSelector,
            requiresApproval |-> TRUE, gasCost |-> 0]
    /\ duels[0].state = "CONCLUDED"
    /\ duels[0].concludedAt = now

\* C33: a concludeDuel or completeQuest that fails, for whatever reason,
\* leaves every CallRecord, the cumulative gas usage, every duel and quest
\* and all token balances as they were before the call.
C33_FailedGuardedCallNoEffect ==
    [][(lastTx'.fn \in {"concludeDuel", "completeQuest"} /\ ~lastTx'.ok) =>
        /\ callRecords' = callRecords
        /\ totalGasUsed' = totalGasUsed
        /\ duels' = duels
        /\ quests' = quests
        /\ balances' = balances
        /\ nextDuelId' = nextDuelId
        /\ nextQuestId' = nextQuestId]_vars

\* A concludeDuel naming a winner who is no player has just failed, after
\* the policy check passed: nothing is recorded and the escrow is intact.
C33_Witness ==
    /\ lastTx = Revert("concludeDuel", Owner, "Invalid winner")
    /\ duels[0].state = "ACTIVE"
    /\ duels[0].winner = ZeroAddress
    /\ callRecords[ArenaKey] = NoRecord
    /\ balances[Arena] = 2 * Wager

\* The selector under which the entity's embedded guard checks isAllowed and
\* records the call: this.concludeDuel.selector, this.completeQuest.selector.
GuardSelector(contractAddress) ==
    IF contractAddress = Arena THEN ConcludeDuelSelector
    ELSE CompleteQuestSelector

\* C34: the (target, operation id) key under which the pipeline validates
\* and records a running plan is the key under which the target's embedded
\* guard checks and records that operation, and the pipeline's records are
\* written under the guards' keys only.
C34_PipelineKeyIsGuardKey ==
    /\ \A p \in Pipes :
          LET key == parseActionName(plan[p].action) IN
          ( /\ pc[p] \notin {"idle", "done"}
            /\ Len(plan[p].action) = 2
            /\ key # Null
            /\ key.contractAddress \in Targets )
          => key.methodSelector = GuardSelector(key.contractAddress)
    /\ \A k \in Keys : callRecords[k] # NoRecord => k[2] = GuardSelector(k[1])

\* The stake the Arena holds for duel d: the creator's wager while PENDING,
\* both wagers while ACTIVE, nothing once CONCLUDED.
Escrow(d) ==
    CASE duels[d].state = "PENDING" -> duels[d].wager
      [] duels[d].state = "ACTIVE" -> 2 * duels[d].wager
      [] OTHER -> 0

RECURSIVE SumEscrow(_)
SumEscrow(ds) ==
    IF ds = {} THEN 0
    ELSE LET d == CHOOSE x \in ds : TRUE
         IN  Escrow(d) + SumEscrow(ds \ {d})

\* C36: in every reachable state the Arena's token balance equals the sum of
\* wager over the PENDING duels plus 2 x wager over the ACTIVE duels, so the
\* payout of a concludeDuel is covered by the concluded duel's own escrow.
C36_ArenaBalanceIsEscrow ==
    /\ balances[Arena] = SumEscrow(DuelIds)
    /\ \A d \in DuelIds :
          duels[d].state = "ACTIVE" => balances[Arena] >= 2 * duels[d].wager

\* Duel 0 has just been paid out while duel 1 is ACTIVE: the Arena still
\* holds both stakes of duel 1.
C36_Witness ==
    /\ lastTx = Ok("concludeDuel", Owner)
    /\ duels[0].state = "CONCLUDED"
    /\ duels[1].state = "ACTIVE"
    /\ balances[Arena] = 2 * Wager

\* C37: acceptQuest takes effect only for a quest id that createQuest has
\* issued: no participant and no state are ever recorded under an id that
\* has not been created yet.
C37_AcceptOnlyCreatedQuests ==
    \A q \in QuestIds : q >= nextQuestId => quests[q] = NoQuest

\* C40: every duel state transition is in the event log: a successful
\* createDuel emits DuelCreated, a successful acceptDuel emits DuelAccepted
\* and a successful concludeDuel emits DuelConcluded.
C40_DuelTransitionsEmitEvents ==
    lastTx.ok =>
        /\ lastTx.fn = "createDuel" => "DuelCreated" \in ArenaLog
        /\ lastTx.fn = "acceptDuel" => "DuelAccepted" \in ArenaLog
        /\ lastTx.fn = "concludeDuel" => "DuelConcluded" \in ArenaLog

\* C38: a task whose status is 'completed' or 'failed' is final: no later
\* task.update, task.finalize or resumption of its processTask run changes
\* its status or its result.
C38_FinishedTaskIsFinal ==
    [][ \A t \in TaskIds :
            tasks[t].status \in {"completed", "failed"}
            => /\ tasks'[t].status = tasks[t].status
               /\ tasks'[t].result = tasks[t].result
      ]_vars

\* C39: within a client's window (from its first request up to and including
\* resetTime) at most MaxRequests requests are admitted, each raising the
\* client's count by one; a further request is answered 429 after rateLimit
\* alone has run and changes neither the limiter nor the tasks; the first
\* request after resetTime is admitted and opens a window with count 1; no
\* request touches another client's entry.
C39_RateLimiterWindow ==
    [][ lastReq' # NoReq =>
          LET c == lastReq'.client
              current == rateLimits[c]
              inWindow == current # NoLimit /\ clock <= current.resetTime
          IN  /\ inWindow /\ current.count >= MaxRequests
                 => /\ lastReq'.code = 429
                    /\ lastReq'.reached = {"rateLimit"}
                    /\ UNCHANGED <<rateLimits, tasks, processing>>
              /\ inWindow /\ current.count < MaxRequests
                 => /\ lastReq'.code # 429
                    /\ "authenticateApiKey" \in lastReq'.reached
                    /\ rateLimits'[c] = [current EXCEPT !.count = @ + 1]
              /\ ~inWindow
                 => /\ lastReq'.code # 429
                    /\ "authenticateApiKey" \in lastReq'.reached
                    /\ rateLimits'[c] =
                           [count |-> 1, resetTime |-> clock + WindowMs]
              /\ rateLimits'[c].count <= MaxRequests
              /\ \A d \in ClientIds \ {c} : rateLimits'[d] = rateLimits[d]
      ]_vars

\* C39 witness: a client's request at the very end of its window (the clock
\* equals resetTime) was answered 429 after MaxRequests admitted requests.
C39_Witness ==
    \E c \in ClientIds :
        /\ lastReq.client = c
        /\ lastReq.code = 429
        /\ rateLimits[c].count = MaxRequests
        /\ clock = rateLimits[c].resetTime

====
